---- MODULE Spec2Model ----
(***************************************************************************)
(* CEFR level annotator of the 4000/ scripts.                              *)
(*                                                                         *)
(*   add_cefr_levels_offline.js  getCEFRLevelOffline, analyzePhrase,       *)
(*                               processTSVFileOffline                     *)
(*   add_cefr_levels.js          getCEFRLevel, queryAPI, getBasicCEFRLevel,*)
(*                               analyzePhrase, processTSVFile             *)
(*                                                                         *)
(* A JavaScript string is a sequence of one-character strings, so that     *)
(* toLowerCase, trim, the regular expressions, split and join are computed *)
(* character by character as the scripts compute them.                     *)
(***************************************************************************)
EXTENDS Integers, Sequences, FiniteSets, TLC

VARIABLES
    input,          \* the string handed to a classifier function called on its own
    fn,             \* the classifier function that was called on it ("none" before)
    result,         \* the value the call returned
    script,         \* the script that runs: "offline" or "remote"
    data,           \* the contents of the input file
    pc,             \* where processTSVFile[Offline] stands
    lines,          \* data.split('\n')
    i,              \* the loop index: the lines handled so far
    processedLines, \* the output lines pushed so far
    processedCount, \* the classifications started so far
    columns,        \* the columns of the line being classified (remote script)
    word,           \* the text being classified (remote script)
    cefrLevel,      \* the value getCEFRLevel returned for it (remote script)
    api,            \* the queryAPI call of the line being classified
    requests,       \* requests[k]: the remote requests issued for line k
    output,         \* what fs.writeFile wrote, once it has
    failure,        \* the failure that ended the run with exit code 1, if any
    history         \* the input files of the earlier runs, when a run is made
                    \* on the output of the run before it

classifyVars == <<input, fn, result>>

runVars ==
    <<script, data, pc, lines, i, processedLines, processedCount, columns, word,
      cefrLevel, api, requests, output, failure, history>>

vars == <<classifyVars, runVars>>

----------------------------------------------------------------------------
(* Characters and the string primitives the scripts use.                   *)

LowerLetters ==
    << "a","b","c","d","e","f","g","h","i","j","k","l","m",
       "n","o","p","q","r","s","t","u","v","w","x","y","z" >>

UpperLetters ==
    << "A","B","C","D","E","F","G","H","I","J","K","L","M",
       "N","O","P","Q","R","S","T","U","V","W","X","Y","Z" >>

DigitChars == {"0","1","2","3","4","5","6","7","8","9"}

\* The white space and line terminator characters of the alphabet: what
\* String.prototype.trim removes and what the class \s matches.
WhiteSpaceChars == {" ", "\t", "\n", "\r", "\f"}

LowerSet == {LowerLetters[q] : q \in 1..26}
UpperSet == {UpperLetters[q] : q \in 1..26}

\* The class \w of a regular expression without the u or i flag.
WordChars == LowerSet \cup UpperSet \cup DigitChars \cup {"_"}

SetMin(S) == CHOOSE m \in S : \A n \in S : m <= n
SetMax(S) == CHOOSE m \in S : \A n \in S : n <= m

toLowerCaseChar(c) ==
    IF c \in UpperSet
    THEN LowerLetters[CHOOSE q \in 1..26 : UpperLetters[q] = c]
    ELSE c

toUpperCaseChar(c) ==
    IF c \in LowerSet
    THEN UpperLetters[CHOOSE q \in 1..26 : LowerLetters[q] = c]
    ELSE c

\* String.prototype.toLowerCase
toLowerCase(s) == [q \in 1..Len(s) |-> toLowerCaseChar(s[q])]

\* String.prototype.toUpperCase
toUpperCase(s) == [q \in 1..Len(s) |-> toUpperCaseChar(s[q])]

\* String.prototype.trim
trim(s) ==
    LET keep == {q \in 1..Len(s) : s[q] \notin WhiteSpaceChars}
    IN  IF keep = {} THEN <<>> ELSE SubSeq(s, SetMin(keep), SetMax(keep))

\* String.prototype.includes with a one-character argument
includes(s, c) == \E q \in 1..Len(s) : s[q] = c

\* String.prototype.startsWith with a one-character argument
startsWith(s, c) == Len(s) >= 1 /\ s[1] = c

\* s.replace(/[^\w\s]/g, '')
removePunctuation(s) ==
    SelectSeq(s, LAMBDA c : c \in WordChars \/ c \in WhiteSpaceChars)

\* splitWhiteSpace cutting at the first run of white space only.
splitWhiteSpace_firstOnly(s) ==
    LET ws == {q \in 1..Len(s) : s[q] \in WhiteSpaceChars}
    IN  IF ws = {}
        THEN << s >>
        ELSE LET k    == SetMin(ws)
                 rest == {q \in (k+1)..Len(s) : s[q] \notin WhiteSpaceChars}
                 e    == IF rest = {} THEN Len(s) + 1 ELSE SetMin(rest)
             IN  << SubSeq(s, 1, k - 1), SubSeq(s, e, Len(s)) >>

\* s.split(/\s+/): the pieces between maximal runs of white space, the empty
\* piece before a leading run and after a trailing run included.
RECURSIVE splitWhiteSpace(_)
splitWhiteSpace(s) ==
    LET ws == {q \in 1..Len(s) : s[q] \in WhiteSpaceChars}
    IN  IF ws = {}
        THEN << s >>
        ELSE LET k    == SetMin(ws)
                 rest == {q \in (k+1)..Len(s) : s[q] \notin WhiteSpaceChars}
                 e    == IF rest = {} THEN Len(s) + 1 ELSE SetMin(rest)
             IN  << SubSeq(s, 1, k - 1) >> \o splitWhiteSpace(SubSeq(s, e, Len(s)))

\* s.split(sep) with a one-character separator: "" splits into [""].
RECURSIVE split(_, _)
split(s, sep) ==
    LET at == {q \in 1..Len(s) : s[q] = sep}
    IN  IF at = {}
        THEN << s >>
        ELSE LET k == SetMin(at)
             IN  << SubSeq(s, 1, k - 1) >> \o split(SubSeq(s, k + 1, Len(s)), sep)

\* parts.join(sep) with a one-character separator: [] joins into "".
RECURSIVE join(_, _)
join(parts, sep) ==
    IF Len(parts) = 0 THEN <<>>
    ELSE IF Len(parts) = 1 THEN parts[1]
    ELSE parts[1] \o << sep >> \o join(Tail(parts), sep)

\* /^[a-z]+$/.test(s): no m flag, so ^ and $ are the ends of the string.
isLowerLetters(s) == Len(s) >= 1 /\ \A q \in 1..Len(s) : s[q] \in LowerSet

----------------------------------------------------------------------------
(* The six levels, as the strings the scripts return.                      *)

A1 == << "A", "1" >>
A2 == << "A", "2" >>
B1 == << "B", "1" >>
B2 == << "B", "2" >>
C1 == << "C", "1" >>
C2 == << "C", "2" >>

Levels == {A1, A2, B1, B2, C1, C2}

\* levelValues[level] || 1
levelValues(level) ==
    IF level = A1 THEN 1
    ELSE IF level = A2 THEN 2
    ELSE IF level = B1 THEN 3
    ELSE IF level = B2 THEN 4
    ELSE IF level = C1 THEN 5
    ELSE IF level = C2 THEN 6
    ELSE 1

\* levelNames: a JavaScript array, index 0 first.
levelNames == << <<>>, A1, A2, B1, B2, C1, C2 >>

----------------------------------------------------------------------------
(* The lexicon tiers of add_cefr_levels_offline.js.                        *)

\* a1Words, offline script (add_cefr_levels_offline.js lines 24-39)
a1Words ==
    { <<"a","g","r","e","e">>, <<"a","r","r","i","v","e">>, <<"a","u","g","u","s","t">>,
      <<"b","o","a","t">>, <<"b","r","e","a","k","f","a","s","t">>, <<"c","a","m","e","r","a">>,
      <<"c","a","t","c","h">>, <<"d","u","c","k">>, <<"e","n","j","o","y">>,
      <<"i","n","v","i","t","e">>, <<"l","o","v","e">>, <<"m","o","n","t","h">>,
      <<"t","r","a","v","e","l">>, <<"v","i","s","i","t">>, <<"w","e","a","t","h","e","r">>,
      <<"w","e","e","k">>, <<"w","i","n","e">>, <<"k","i","l","l">>, <<"l","a","u","g","h">>,
      <<"l","o","u","d">>, <<"n","o","i","s","e">>, <<"s","m","e","l","l">>,
      <<"c","l","o","u","d">>, <<"a","n","i","m","a","l">>, <<"b","u","s">>, <<"c","a","t">>,
      <<"d","o","g">>, <<"d","o","o","r">>, <<"f","r","i","e","n","d">>, <<"h","e","a","r">>,
      <<"h","e","l","p">>, <<"h","o","r","s","e">>, <<"h","o","s","p","i","t","a","l">>,
      <<"l","e","g">>, <<"o","p","e","n">>, <<"p","u","l","l">>, <<"r","a","b","b","i","t">>,
      <<"s","c","h","o","o","l">>, <<"s","e","e">>, <<"c","h","i","c","k","e","n">>,
      <<"e","a","t">>, <<"f","o","o","d">>, <<"f","r","u","i","t">>, <<"w","a","t","e","r">>,
      <<"a","s","k">>, <<"b","a","n","a","n","a">>, <<"b","r","e","a","d">>, <<"c","a","k","e">>,
      <<"c","a","r","r","o","t">>, <<"c","h","o","c","o","l","a","t","e">>,
      <<"a","l","w","a","y","s">>, <<"s","e","v","e","n">>, <<"s","t","a","r","t">>,
      <<"t","o","g","e","t","h","e","r">>, <<"w","e","a","r">>, <<"y","e","a","r">>,
      <<"h","o","m","e">>, <<"f","a","m","i","l","y">>, <<"f","r","o","m">>,
      <<"g","r","e","e","n">>, <<"r","e","d">>, <<"b","o","o","k">>,
      <<"c","l","o","t","h","e","s">>, <<"d","i","n","n","e","r">>, <<"e","n","d">>,
      <<"j","a","n","u","a","r","y">>, <<"d","e","c","e","m","b","e","r">>, <<"t","h","e">>,
      <<"a">>, <<"a","n">>, <<"a","n","d">>, <<"o","r">>, <<"b","u","t">>, <<"i","n">>,
      <<"o","n">>, <<"a","t">>, <<"t","o">>, <<"f","o","r">>, <<"o","f">>, <<"w","i","t","h">>,
      <<"b","y">>, <<"i">>, <<"y","o","u">>, <<"h","e">>, <<"s","h","e">>, <<"i","t">>,
      <<"w","e">>, <<"t","h","e","y">>, <<"m","y">>, <<"y","o","u","r">>, <<"h","i","s">>,
      <<"h","e","r">>, <<"i","t","s">>, <<"o","u","r">>, <<"t","h","e","i","r">>,
      <<"t","h","i","s">>, <<"t","h","a","t">>, <<"t","h","e","s","e">>, <<"t","h","o","s","e">>,
      <<"h","e","r","e">>, <<"t","h","e","r","e">>, <<"w","h","e","r","e">>, <<"w","h","e","n">>,
      <<"w","h","a","t">>, <<"w","h","o">>, <<"h","o","w">>, <<"w","h","y">>, <<"y","e","s">>,
      <<"n","o">>, <<"n","o","t">>, <<"g","o","o","d">>, <<"b","a","d">>, <<"b","i","g">>,
      <<"s","m","a","l","l">>, <<"n","e","w">>, <<"o","l","d">>, <<"h","o","t">>,
      <<"c","o","l","d">>, <<"l","o","n","g">>, <<"s","h","o","r","t">>, <<"l","i","k","e">>,
      <<"w","a","n","t">>, <<"n","e","e","d">>, <<"h","a","v","e">>, <<"g","e","t">>, <<"g","o">>,
      <<"c","o","m","e">>, <<"l","o","o","k">>, <<"d","r","i","n","k">>, <<"w","o","r","k">>,
      <<"t","i","m","e">>, <<"d","a","y">> }

\* a2Words, offline script (add_cefr_levels_offline.js lines 42-67)
a2Words ==
    { <<"c","a","p","i","t","a","l">>, <<"t","y","p","i","c","a","l">>,
      <<"a","d","v","e","n","t","u","r","e">>, <<"a","p","p","r","o","a","c","h">>,
      <<"c","a","r","e","f","u","l","l","y">>, <<"c","r","e","a","t","e">>,
      <<"p","r","o","j","e","c","t">>, <<"s","c","a","r","e">>, <<"s","e","c","r","e","t">>,
      <<"s","h","o","u","t">>, <<"t","e","r","r","i","b","l","e">>, <<"w","o","r","s","e">>,
      <<"a","m","o","n","g">>, <<"c","h","a","r","t">>, <<"d","e","s","c","r","i","b","e">>,
      <<"e","v","e","r">>, <<"f","a","i","l">>, <<"g","r","a","d","e">>,
      <<"i","n","s","t","e","a","d">>, <<"l","i","b","r","a","r","y">>,
      <<"p","h","o","t","o","g","r","a","p","h">>, <<"s","e","v","e","r","a","l">>,
      <<"s","o","l","v","e">>, <<"s","u","d","d","e","n","l","y">>,
      <<"s","u","p","p","o","s","e">>, <<"u","n","d","e","r","s","t","a","n","d">>,
      <<"v","i","e","w">>, <<"a","p","p","r","o","p","r","i","a","t","e">>,
      <<"a","v","o","i","d">>, <<"b","e","h","a","v","e">>, <<"c","a","l","m">>,
      <<"c","o","n","c","e","r","n">>, <<"c","o","n","t","e","n","t">>,
      <<"e","x","p","e","c","t">>, <<"f","r","e","q","u","e","n","t","l","y">>,
      <<"h","a","b","i","t">>, <<"i","n","s","t","r","u","c","t">>, <<"i","s","s","u","e">>,
      <<"n","o","n","e">>, <<"p","a","t","i","e","n","t">>, <<"p","o","s","i","t","i","v","e">>,
      <<"p","u","n","i","s","h">>, <<"r","e","p","r","e","s","e","n","t">>,
      <<"s","h","a","k","e">>, <<"s","p","r","e","a","d">>, <<"s","t","r","o","l","l">>,
      <<"v","i","l","l","a","g","e">>, <<"a","c","t","i","v","e">>, <<"a","d","u","l","t">>,
      <<"a","g","e">>, <<"b","a","l","a","n","c","e">>, <<"b","i","k","e">>,
      <<"c","h","o","o","s","e">>, <<"d","o","c","t","o","r">>, <<"d","u","r","i","n","g">>,
      <<"f","o","o","t","b","a","l","l">>, <<"f","u","n">>, <<"g","a","m","e">>,
      <<"h","e","a","r","t">>, <<"g","o","l","f">>, <<"i","n","c","r","e","a","s","e">>,
      <<"l","i","f","e">>, <<"o","f","t","e","n">>, <<"p","l","e","n","t","y">>,
      <<"w","e","i","g","h","t">>, <<"a","p","a","r","t","m","e","n","t">>,
      <<"a","r","t","i","c","l","e">>, <<"a","r","t","i","s","t">>,
      <<"a","t","t","i","t","u","d","e">>, <<"b","e","a","u","t","y">>,
      <<"c","o","m","p","a","r","e">>, <<"j","u","d","g","e">>,
      <<"m","a","g","a","z","i","n","e">>, <<"m","a","t","e","r","i","a","l">>,
      <<"m","e","a","l">>, <<"m","e","t","h","o","d">>, <<"n","e","i","g","h","b","o","r">>,
      <<"p","r","o","f","i","t">>, <<"q","u","a","l","i","t","y">>, <<"s","p","a","c","e">>,
      <<"s","t","a","i","r">>, <<"s","y","m","b","o","l">>, <<"t","h","i","n">>,
      <<"c","o","m","m","u","n","i","t","y">>, <<"u","n","i","v","e","r","s","i","t","y">>,
      <<"c","e","l","e","b","r","a","t","e">>, <<"d","e","c","i","d","e">>,
      <<"d","i","s","a","p","p","e","a","r">>, <<"e","l","s","e">>, <<"f","a","i","r">>,
      <<"f","l","o","w">>, <<"f","o","r","w","a","r","d">>, <<"h","i","l","l">>,
      <<"l","e","v","e","l">>, <<"l","o","n","e">>, <<"p","u","d","d","l","e">>,
      <<"r","e","s","p","o","n","s","e">>, <<"s","e","a","s","o","n">>,
      <<"s","o","l","u","t","i","o","n">>, <<"w","a","s","t","e">>,
      <<"w","h","e","t","h","e","r">>, <<"g","r","e","a","t">>, <<"h","e","a","l","t","h">>,
      <<"r","e","c","i","p","e">>, <<"r","e","s","t","a","u","r","a","n","t">>,
      <<"s","p","e","c","i","a","l">>, <<"a","l","i","v","e">>, <<"b","o","n","e">>,
      <<"b","o","t","h","e","r">>, <<"c","a","p","t","a","i","n">>,
      <<"c","o","n","c","l","u","s","i","o","n">>, <<"d","o","u","b","t">>,
      <<"e","x","p","l","o","r","e">>, <<"g","l","a","d">>, <<"h","o","w","e","v","e","r">>,
      <<"m","e","n","t","i","o","n">>, <<"s","o","c","i","a","l">>, <<"s","p","e","e","c","h">>,
      <<"s","t","a","f","f">>, <<"t","o","w","a","r","d">>, <<"w","o","o","d">>,
      <<"a","c","h","i","e","v","e">>, <<"a","d","v","i","s","e">>,
      <<"a","l","r","e","a","d","y">>, <<"b","a","s","i","c">>, <<"b","i","t">>,
      <<"c","o","n","s","i","d","e","r">>, <<"d","e","s","t","r","o","y">>,
      <<"e","n","t","e","r","t","a","i","n">>, <<"e","x","t","r","a">>, <<"g","o","a","l">>,
      <<"l","i","e">>, <<"m","e","a","t">>, <<"o","p","i","n","i","o","n">>, <<"r","e","a","l">>,
      <<"r","e","f","l","e","c","t">>, <<"r","e","g","a","r","d">>, <<"s","e","r","v","e">>,
      <<"v","e","g","e","t","a","b","l","e">>, <<"w","a","r">>, <<"w","o","r","t","h">>,
      <<"a","b","o","u","t">>, <<"a","f","t","e","r">>, <<"a","g","a","i","n">>, <<"a","l","l">>,
      <<"a","l","s","o">>, <<"d","i","f","f","e","r","e","n","t">>, <<"e","a","c","h">>,
      <<"e","a","r","l","y">>, <<"e","v","e","r","y">>, <<"f","i","r","s","t">>,
      <<"i","m","p","o","r","t","a","n","t">>, <<"l","a","r","g","e">>, <<"l","a","s","t">>,
      <<"l","a","t","e">>, <<"l","i","t","t","l","e">>, <<"l","i","v","e">>, <<"m","a","k","e">>,
      <<"m","a","n","y">>, <<"m","o","s","t">>, <<"m","u","c","h">>, <<"n","e","v","e","r">>,
      <<"n","e","x","t">>, <<"o","n","l","y">>, <<"o","t","h","e","r">>, <<"o","w","n">>,
      <<"p","l","a","c","e">>, <<"r","i","g","h","t">>, <<"s","a","m","e">>, <<"s","o","m","e">>,
      <<"s","t","i","l","l">>, <<"s","u","c","h">>, <<"t","a","k","e">>, <<"t","h","a","n">>,
      <<"t","h","e","m">>, <<"t","h","i","n","k">>, <<"t","h","r","o","u","g","h">>,
      <<"v","e","r","y">>, <<"w","a","y">>, <<"w","e","l","l">>, <<"w","h","i","l","e">>,
      <<"w","o","r","l","d">>, <<"w","r","i","t","e">>, <<"y","o","u","n","g">> }

\* b1Words, offline script (add_cefr_levels_offline.js lines 70-87)
b1Words ==
    { <<"a","l","c","o","h","o","l">>, <<"c","h","e","m","i","c","a","l">>, <<"e","v","i","l">>,
      <<"e","x","p","e","r","i","m","e","n","t">>, <<"l","a","b","o","r","a","t","o","r","y">>,
      <<"n","e","r","v","o","u","s">>, <<"a","l","i","e","n">>, <<"p","l","a","n","e","t">>,
      <<"r","e","p","o","r","t">>, <<"s","h","a","p","e">>, <<"c","o","m","m","a","n","d">>,
      <<"d","e","p","e","n","d">>, <<"m","e","d","i","c","a","l">>,
      <<"s","e","r","v","i","c","e">>, <<"b","e","n","e","f","i","t">>,
      <<"c","e","r","t","a","i","n">>, <<"c","h","a","n","c","e">>, <<"e","f","f","e","c","t">>,
      <<"e","s","s","e","n","t","i","a","l">>, <<"f","o","c","u","s">>,
      <<"f","u","n","c","t","i","o","n">>, <<"g","r","a","s","s">>, <<"g","u","a","r","d">>,
      <<"i","m","a","g","e">>, <<"i","m","m","e","d","i","a","t","e">>,
      <<"p","r","i","m","a","r","y">>, <<"p","r","o","u","d">>, <<"r","e","m","a","i","n">>,
      <<"r","e","s","t">>, <<"s","e","p","a","r","a","t","e">>, <<"s","i","t","e">>,
      <<"t","a","i","l">>, <<"t","r","o","u","b","l","e">>,
      <<"a","d","v","e","r","t","i","s","e">>, <<"a","w","a","r","e">>,
      <<"b","a","t","t","e","r","y">>, <<"b","l","a","c","k">>, <<"c","i","t","y">>,
      <<"c","l","e","a","n">>, <<"c","o","u","n","t","r","y">>, <<"d","e","v","e","l","o","p">>,
      <<"e","l","e","c","t","r","i","c">>, <<"e","v","e","n","t","u","a","l","l","y">>,
      <<"f","a","c","t">>, <<"g","l","a","s","s">>, <<"h","i","s","t","o","r","y">>,
      <<"n","a","t","u","r","e">>, <<"p","e","o","p","l","e">>, <<"p","l","a","s","t","i","c">>,
      <<"p","r","o","b","l","e","m">>, <<"s","t","r","e","e","t">>, <<"a","l","o","n","e">>,
      <<"p","r","o","f","e","s","s","i","o","n","a","l">>, <<"a","p","p","e","a","l">>,
      <<"a","s","s","u","m","e">>, <<"b","o","r","r","o","w">>, <<"c","l","i","e","n","t">>,
      <<"d","o","w","n","t","o","w","n">>, <<"d","u","l","l">>,
      <<"e","m","b","a","r","r","a","s","s">>, <<"f","a","r","e">>, <<"f","o","r","m","e","r">>,
      <<"f","o","u","n","d">>, <<"i","n","v","e","s","t">>, <<"l","o","a","n">>,
      <<"p","r","a","c","t","i","c","a","l">>, <<"q","u","a","r","t","e","r">>,
      <<"s","a","l","a","r","y">>, <<"s","c","h","o","l","a","r","s","h","i","p">>,
      <<"t","e","m","p","o","r","a","r","y">>, <<"t","r","e","a","s","u","r","e">>,
      <<"u","r","g","e">>, <<"c","o","a","c","h">>, <<"c","o","n","t","r","o","l">>,
      <<"d","e","s","c","r","i","p","t","i","o","n">>, <<"d","i","r","e","c","t">>,
      <<"e","x","a","m">>, <<"e","x","a","m","p","l","e">>, <<"l","i","m","i","t">>,
      <<"l","o","c","a","l">>, <<"m","a","g","i","c","a","l">>, <<"m","a","i","l">>,
      <<"n","o","v","e","l">>, <<"o","u","t","l","i","n","e">>, <<"p","o","e","t">>,
      <<"p","r","i","n","t">>, <<"s","c","e","n","e">>, <<"s","h","e","e","t">>,
      <<"s","i","l","l","y">>, <<"s","t","o","r","e">>, <<"s","u","f","f","e","r">>,
      <<"t","e","c","h","n","o","l","o","g","y">>, <<"a","c","r","o","s","s">>,
      <<"b","r","e","a","t","h","e">>, <<"c","h","a","r","a","c","t","e","r","i","s","t","i","c">>,
      <<"c","o","n","s","u","m","e">>, <<"e","x","c","i","t","e">>,
      <<"e","x","t","r","e","m","e","l","y">>, <<"f","e","a","r">>,
      <<"f","o","r","t","u","n","a","t","e">>, <<"h","a","p","p","e","n">>,
      <<"l","e","n","g","t","h">>, <<"m","i","s","t","a","k","e">>,
      <<"o","b","s","e","r","v","e">>, <<"o","p","p","o","r","t","u","n","i","t","y">>,
      <<"p","r","i","z","e">>, <<"r","a","c","e">>, <<"r","e","a","l","i","z","e">>,
      <<"r","e","s","p","o","n","d">>, <<"r","i","s","k">>, <<"w","o","n","d","e","r">>,
      <<"y","e","t">>, <<"a","r","t">>, <<"c","o","n","t","a","i","n">>,
      <<"d","e","l","i","c","i","o","u","s">>, <<"d","i","e","t">>,
      <<"a","c","c","o","u","n","t","i","n","g">>, <<"i","n","j","u","s","t","i","c","e">>,
      <<"i","n","t","e","r","n","a","t","i","o","n","a","l">>, <<"l","a","w","y","e","r">>,
      <<"p","o","l","i","c","y">> }

\* b2Words, offline script (add_cefr_levels_offline.js lines 90-106)
b2Words ==
    { <<"a","p","a","r","t">>, <<"a","t","t","r","i","b","u","t","e">>,
      <<"b","i","l","i","n","g","u","a","l">>, <<"c","o","m","p","l","e","t","e","l","y">>,
      <<"d","a","s","h">>, <<"d","i","s","g","u","s","t">>,
      <<"f","a","s","h","i","o","n","a","b","l","e">>, <<"f","o","r","e","i","g","n">>,
      <<"g","u","l","f">>, <<"m","i","r","r","o","r">>, <<"n","a","t","u","r","a","l">>,
      <<"n","o","w","a","d","a","y","s">>, <<"p","a","r","t","i","c","i","p","a","n","t">>,
      <<"r","i","t","u","a","l">>, <<"s","p","o","k","e","n">>, <<"s","p","o","r","t">>,
      <<"s","u","r","p","r","i","s","e","d">>, <<"t","e","n","s","e">>,
      <<"t","o","t","a","l","l","y">>, <<"v","a","g","u","e">>, <<"a","l","l","o","w">>,
      <<"a","n","n","o","u","n","c","e">>, <<"b","e","s","i","d","e">>,
      <<"c","h","a","l","l","e","n","g","e">>, <<"c","l","a","i","m">>,
      <<"c","o","n","d","i","t","i","o","n">>, <<"c","o","n","t","r","i","b","u","t","e">>,
      <<"d","i","f","f","e","r","e","n","c","e">>, <<"d","i","v","i","d","e">>,
      <<"e","x","p","e","r","t">>, <<"f","a","m","o","u","s">>, <<"f","o","r","c","e">>,
      <<"h","a","r","m">>, <<"l","a","y">>, <<"p","e","a","c","e">>, <<"p","r","i","n","c","e">>,
      <<"p","r","o","t","e","c","t">>, <<"s","e","n","s","e">>, <<"s","u","d","d","e","n">>,
      <<"t","h","e","r","e","f","o","r","e">>, <<"a","c","c","e","p","t">>,
      <<"a","r","r","a","n","g","e">>, <<"a","t","t","e","n","d">>, <<"c","h","a","s","e">>,
      <<"c","o","n","t","r","a","s","t">>, <<"e","n","c","o","u","r","a","g","e">>,
      <<"f","a","m","i","l","i","a","r">>, <<"g","r","a","b">>, <<"h","a","n","g">>,
      <<"h","u","g","e">>, <<"n","e","c","e","s","s","a","r","y">>,
      <<"p","a","t","t","e","r","n">>, <<"p","r","o","p","o","s","e">>,
      <<"p","u","r","p","o","s","e">>, <<"r","e","l","e","a","s","e">>,
      <<"r","e","q","u","i","r","e">>, <<"s","a","t","i","s","f","i","e","d">>,
      <<"s","i","n","g","l","e">>, <<"t","e","a","r">>, <<"t","h","e","o","r","y">>,
      <<"a","d","v","a","n","c","e">>, <<"a","t","h","l","e","t","e">>,
      <<"a","v","e","r","a","g","e">>, <<"b","e","h","a","v","i","o","r">>,
      <<"b","e","h","i","n","d">>, <<"c","o","u","r","s","e">>, <<"l","o","w","e","r">>,
      <<"m","a","t","c","h">>, <<"m","e","m","b","e","r">>, <<"m","e","n","t","a","l">>,
      <<"p","a","s","s","e","n","g","e","r">>, <<"p","e","r","s","o","n","a","l","i","t","y">>,
      <<"p","o","e","m">>, <<"p","o","l","e">>, <<"r","e","m","o","v","e">>,
      <<"s","a","f","e","t","y">>, <<"s","h","o","o","t">>, <<"s","o","u","n","d">>,
      <<"s","w","i","m">>, <<"w","e","b">>, <<"b","l","o","c","k">>, <<"b","u","r","y">>,
      <<"c","h","e","e","r">>, <<"c","o","m","p","l","e","x">>, <<"c","r","i","t","i","c">>,
      <<"d","i","r","e","c","t","i","o","n">>, <<"e","v","e","n","t">>,
      <<"e","x","e","r","c","i","s","e">>, <<"f","r","i","e","n","d","s","h","i","p">>,
      <<"g","u","i","d","e">>, <<"l","a","c","k">>, <<"p","e","r","f","o","r","m">>,
      <<"b","r","i","g","h","t">>, <<"a","c","t","u","a","l">>, <<"a","m","a","z","e">>,
      <<"c","h","a","r","g","e">>, <<"c","o","m","f","o","r","t">>,
      <<"c","o","n","t","a","c","t">>, <<"c","u","s","t","o","m","e","r">>,
      <<"d","e","l","i","v","e","r">>, <<"e","a","r","n">>, <<"g","a","t","e">>,
      <<"i","n","c","l","u","d","e">>, <<"m","a","n","a","g","e">>,
      <<"m","y","s","t","e","r","y">>, <<"o","c","c","u","r">>,
      <<"o","p","p","o","s","i","t","e">>, <<"p","l","a","t","e">>,
      <<"r","e","c","e","i","v","e">>, <<"r","e","w","a","r","d">>, <<"s","e","t">>,
      <<"s","t","e","a","l">>, <<"t","h","i","e","f">> }

\* c1Words, offline script (add_cefr_levels_offline.js lines 109-113)
c1Words ==
    { <<"e","x","c","h","a","n","g","e">>, <<"a","p","p","e","a","r">>, <<"b","a","s","e">>,
      <<"b","r","a","i","n">>, <<"c","a","r","e","e","r">>, <<"c","l","e","r","k">>,
      <<"e","f","f","o","r","t">>, <<"e","n","t","e","r">>,
      <<"e","x","c","e","l","l","e","n","t">>, <<"h","e","r","o">>, <<"h","u","r","r","y">>,
      <<"i","n","f","o","r","m">>, <<"l","a","t","e","r">>, <<"l","e","a","v","e">>,
      <<"l","o","c","a","t","e">>, <<"n","u","r","s","e">>,
      <<"o","p","e","r","a","t","i","o","n">>, <<"p","a","i","n">>, <<"r","e","f","u","s","e">>,
      <<"t","h","o","u","g","h">>, <<"v","a","r","i","o","u","s">> }

\* c2Words, offline script (add_cefr_levels_offline.js lines 116-118)
c2Words ==
    { <<"s","o","p","h","i","s","t","i","c","a","t","e","d">>,
      <<"u","n","p","r","e","c","e","d","e","n","t","e","d">>,
      <<"m","a","n","i","f","e","s","t","a","t","i","o","n">>,
      <<"c","o","n","t","e","m","p","o","r","a","r","y">>, <<"a","m","b","i","g","u","o","u","s">> }
----------------------------------------------------------------------------
(* The lexicon tiers of add_cefr_levels.js (names prefixed basic_).        *)

\* a1Words, remote-enabled script (add_cefr_levels.js lines 128-143)
basic_a1Words ==
    { <<"a","g","r","e","e">>, <<"a","r","r","i","v","e">>, <<"a","u","g","u","s","t">>,
      <<"b","o","a","t">>, <<"b","r","e","a","k","f","a","s","t">>, <<"c","a","m","e","r","a">>,
      <<"c","a","t","c","h">>, <<"d","u","c","k">>, <<"e","n","j","o","y">>,
      <<"i","n","v","i","t","e">>, <<"l","o","v","e">>, <<"m","o","n","t","h">>,
      <<"t","r","a","v","e","l">>, <<"v","i","s","i","t">>, <<"w","e","a","t","h","e","r">>,
      <<"w","e","e","k">>, <<"w","i","n","e">>, <<"k","i","l","l">>, <<"l","a","u","g","h">>,
      <<"l","o","u","d">>, <<"n","o","i","s","e">>, <<"s","m","e","l","l">>,
      <<"c","l","o","u","d">>, <<"a","n","i","m","a","l">>, <<"b","u","s">>, <<"c","a","t">>,
      <<"d","o","g">>, <<"d","o","o","r">>, <<"f","r","i","e","n","d">>, <<"h","e","a","r">>,
      <<"h","e","l","p">>, <<"h","o","r","s","e">>, <<"h","o","s","p","i","t","a","l">>,
      <<"l","e","g">>, <<"o","p","e","n">>, <<"p","u","l","l">>, <<"r","a","b","b","i","t">>,
      <<"s","c","h","o","o","l">>, <<"s","e","e">>, <<"c","h","i","c","k","e","n">>,
      <<"e","a","t">>, <<"f","o","o","d">>, <<"f","r","u","i","t">>, <<"w","a","t","e","r">>,
      <<"a","s","k">>, <<"b","a","n","a","n","a">>, <<"b","r","e","a","d">>, <<"c","a","k","e">>,
      <<"c","a","r","r","o","t">>, <<"c","h","o","c","o","l","a","t","e">>,
      <<"a","l","w","a","y","s">>, <<"s","e","v","e","n">>, <<"s","t","a","r","t">>,
      <<"t","o","g","e","t","h","e","r">>, <<"w","e","a","r">>, <<"y","e","a","r">>,
      <<"h","o","m","e">>, <<"f","a","m","i","l","y">>, <<"f","r","o","m">>,
      <<"g","r","e","e","n">>, <<"r","e","d">>, <<"b","o","o","k">>,
      <<"c","l","o","t","h","e","s">>, <<"d","i","n","n","e","r">>, <<"e","n","d">>,
      <<"j","a","n","u","a","r","y">>, <<"d","e","c","e","m","b","e","r">>, <<"t","h","e">>,
      <<"a">>, <<"a","n">>, <<"a","n","d">>, <<"o","r">>, <<"b","u","t">>, <<"i","n">>,
      <<"o","n">>, <<"a","t">>, <<"t","o">>, <<"f","o","r">>, <<"o","f">>, <<"w","i","t","h">>,
      <<"b","y">>, <<"i">>, <<"y","o","u">>, <<"h","e">>, <<"s","h","e">>, <<"i","t">>,
      <<"w","e">>, <<"t","h","e","y">>, <<"m","y">>, <<"y","o","u","r">>, <<"h","i","s">>,
      <<"h","e","r">>, <<"i","t","s">>, <<"o","u","r">>, <<"t","h","e","i","r">>,
      <<"t","h","i","s">>, <<"t","h","a","t">>, <<"t","h","e","s","e">>, <<"t","h","o","s","e">>,
      <<"h","e","r","e">>, <<"t","h","e","r","e">>, <<"w","h","e","r","e">>, <<"w","h","e","n">>,
      <<"w","h","a","t">>, <<"w","h","o">>, <<"h","o","w">>, <<"w","h","y">>, <<"y","e","s">>,
      <<"n","o">>, <<"n","o","t">>, <<"g","o","o","d">>, <<"b","a","d">>, <<"b","i","g">>,
      <<"s","m","a","l","l">>, <<"n","e","w">>, <<"o","l","d">>, <<"h","o","t">>,
      <<"c","o","l","d">>, <<"l","o","n","g">>, <<"s","h","o","r","t">>, <<"l","i","k","e">>,
      <<"w","a","n","t">>, <<"n","e","e","d">>, <<"h","a","v","e">>, <<"g","e","t">>, <<"g","o">>,
      <<"c","o","m","e">>, <<"l","o","o","k">>, <<"d","r","i","n","k">>, <<"w","o","r","k">>,
      <<"t","i","m","e">>, <<"d","a","y">> }

\* a2Words, remote-enabled script (add_cefr_levels.js lines 146-171)
basic_a2Words ==
    { <<"c","a","p","i","t","a","l">>, <<"t","y","p","i","c","a","l">>,
      <<"a","d","v","e","n","t","u","r","e">>, <<"a","p","p","r","o","a","c","h">>,
      <<"c","a","r","e","f","u","l","l","y">>, <<"c","r","e","a","t","e">>,
      <<"p","r","o","j","e","c","t">>, <<"s","c","a","r","e">>, <<"s","e","c","r","e","t">>,
      <<"s","h","o","u","t">>, <<"t","e","r","r","i","b","l","e">>, <<"w","o","r","s","e">>,
      <<"a","m","o","n","g">>, <<"c","h","a","r","t">>, <<"d","e","s","c","r","i","b","e">>,
      <<"e","v","e","r">>, <<"f","a","i","l">>, <<"g","r","a","d","e">>,
      <<"i","n","s","t","e","a","d">>, <<"l","i","b","r","a","r","y">>,
      <<"p","h","o","t","o","g","r","a","p","h">>, <<"s","e","v","e","r","a","l">>,
      <<"s","o","l","v","e">>, <<"s","u","d","d","e","n","l","y">>,
      <<"s","u","p","p","o","s","e">>, <<"u","n","d","e","r","s","t","a","n","d">>,
      <<"v","i","e","w">>, <<"a","p","p","r","o","p","r","i","a","t","e">>,
      <<"a","v","o","i","d">>, <<"b","e","h","a","v","e">>, <<"c","a","l","m">>,
      <<"c","o","n","c","e","r","n">>, <<"c","o","n","t","e","n","t">>,
      <<"e","x","p","e","c","t">>, <<"f","r","e","q","u","e","n","t","l","y">>,
      <<"h","a","b","i","t">>, <<"i","n","s","t","r","u","c","t">>, <<"i","s","s","u","e">>,
      <<"n","o","n","e">>, <<"p","a","t","i","e","n","t">>, <<"p","o","s","i","t","i","v","e">>,
      <<"p","u","n","i","s","h">>, <<"r","e","p","r","e","s","e","n","t">>,
      <<"s","h","a","k","e">>, <<"s","p","r","e","a","d">>, <<"s","t","r","o","l","l">>,
      <<"v","i","l","l","a","g","e">>, <<"a","c","t","i","v","e">>, <<"a","d","u","l","t">>,
      <<"a","g","e">>, <<"b","a","l","a","n","c","e">>, <<"b","i","k","e">>,
      <<"c","h","o","o","s","e">>, <<"d","o","c","t","o","r">>, <<"d","u","r","i","n","g">>,
      <<"f","o","o","t","b","a","l","l">>, <<"f","u","n">>, <<"g","a","m","e">>,
      <<"h","e","a","r","t">>, <<"g","o","l","f">>, <<"i","n","c","r","e","a","s","e">>,
      <<"l","i","f","e">>, <<"o","f","t","e","n">>, <<"p","l","e","n","t","y">>,
      <<"w","e","i","g","h","t">>, <<"a","p","a","r","t","m","e","n","t">>,
      <<"a","r","t","i","c","l","e">>, <<"a","r","t","i","s","t">>,
      <<"a","t","t","i","t","u","d","e">>, <<"b","e","a","u","t","y">>,
      <<"c","o","m","p","a","r","e">>, <<"j","u","d","g","e">>,
      <<"m","a","g","a","z","i","n","e">>, <<"m","a","t","e","r","i","a","l">>,
      <<"m","e","a","l">>, <<"m","e","t","h","o","d">>, <<"n","e","i","g","h","b","o","r">>,
      <<"p","r","o","f","i","t">>, <<"q","u","a","l","i","t","y">>, <<"s","p","a","c","e">>,
      <<"s","t","a","i","r">>, <<"s","y","m","b","o","l">>, <<"t","h","i","n">>,
      <<"c","o","m","m","u","n","i","t","y">>, <<"u","n","i","v","e","r","s","i","t","y">>,
      <<"c","e","l","e","b","r","a","t","e">>, <<"d","e","c","i","d","e">>,
      <<"d","i","s","a","p","p","e","a","r">>, <<"e","l","s","e">>, <<"f","a","i","r">>,
      <<"f","l","o","w">>, <<"f","o","r","w","a","r","d">>, <<"h","i","l","l">>,
      <<"l","e","v","e","l">>, <<"l","o","n","e">>, <<"p","u","d","d","l","e">>,
      <<"r","e","s","p","o","n","s","e">>, <<"s","e","a","s","o","n">>,
      <<"s","o","l","u","t","i","o","n">>, <<"w","a","s","t","e">>,
      <<"w","h","e","t","h","e","r">>, <<"g","r","e","a","t">>, <<"h","e","a","l","t","h">>,
      <<"r","e","c","i","p","e">>, <<"r","e","s","t","a","u","r","a","n","t">>,
      <<"s","p","e","c","i","a","l">>, <<"a","l","i","v","e">>, <<"b","o","n","e">>,
      <<"b","o","t","h","e","r">>, <<"c","a","p","t","a","i","n">>,
      <<"c","o","n","c","l","u","s","i","o","n">>, <<"d","o","u","b","t">>,
      <<"e","x","p","l","o","r","e">>, <<"g","l","a","d">>, <<"h","o","w","e","v","e","r">>,
      <<"m","e","n","t","i","o","n">>, <<"s","o","c","i","a","l">>, <<"s","p","e","e","c","h">>,
      <<"s","t","a","f","f">>, <<"t","o","w","a","r","d">>, <<"w","o","o","d">>,
      <<"a","c","h","i","e","v","e">>, <<"a","d","v","i","s","e">>,
      <<"a","l","r","e","a","d","y">>, <<"b","a","s","i","c">>, <<"b","i","t">>,
      <<"c","o","n","s","i","d","e","r">>, <<"d","e","s","t","r","o","y">>,
      <<"e","n","t","e","r","t","a","i","n">>, <<"e","x","t","r","a">>, <<"g","o","a","l">>,
      <<"l","i","e">>, <<"m","e","a","t">>, <<"o","p","i","n","i","o","n">>, <<"r","e","a","l">>,
      <<"r","e","f","l","e","c","t">>, <<"r","e","g","a","r","d">>, <<"s","e","r","v","e">>,
      <<"v","e","g","e","t","a","b","l","e">>, <<"w","a","r">>, <<"w","o","r","t","h">>,
      <<"a","b","o","u","t">>, <<"a","f","t","e","r">>, <<"a","g","a","i","n">>, <<"a","l","l">>,
      <<"a","l","s","o">>, <<"d","i","f","f","e","r","e","n","t">>, <<"e","a","c","h">>,
      <<"e","a","r","l","y">>, <<"e","v","e","r","y">>, <<"f","i","r","s","t">>,
      <<"i","m","p","o","r","t","a","n","t">>, <<"l","a","r","g","e">>, <<"l","a","s","t">>,
      <<"l","a","t","e">>, <<"l","i","t","t","l","e">>, <<"l","i","v","e">>, <<"m","a","k","e">>,
      <<"m","a","n","y">>, <<"m","o","s","t">>, <<"m","u","c","h">>, <<"n","e","v","e","r">>,
      <<"n","e","x","t">>, <<"o","n","l","y">>, <<"o","t","h","e","r">>, <<"o","w","n">>,
      <<"p","l","a","c","e">>, <<"r","i","g","h","t">>, <<"s","a","m","e">>, <<"s","o","m","e">>,
      <<"s","t","i","l","l">>, <<"s","u","c","h">>, <<"t","a","k","e">>, <<"t","h","a","n">>,
      <<"t","h","e","m">>, <<"t","h","i","n","k">>, <<"t","h","r","o","u","g","h">>,
      <<"v","e","r","y">>, <<"w","a","y">>, <<"w","e","l","l">>, <<"w","h","i","l","e">>,
      <<"w","o","r","l","d">>, <<"w","r","i","t","e">>, <<"y","o","u","n","g">> }

\* b1Words, remote-enabled script (add_cefr_levels.js lines 174-191)
basic_b1Words ==
    { <<"a","l","c","o","h","o","l">>, <<"c","h","e","m","i","c","a","l">>, <<"e","v","i","l">>,
      <<"e","x","p","e","r","i","m","e","n","t">>, <<"l","a","b","o","r","a","t","o","r","y">>,
      <<"n","e","r","v","o","u","s">>, <<"a","l","i","e","n">>, <<"p","l","a","n","e","t">>,
      <<"r","e","p","o","r","t">>, <<"s","h","a","p","e">>, <<"c","o","m","m","a","n","d">>,
      <<"d","e","p","e","n","d">>, <<"m","e","d","i","c","a","l">>,
      <<"s","e","r","v","i","c","e">>, <<"b","e","n","e","f","i","t">>,
      <<"c","e","r","t","a","i","n">>, <<"c","h","a","n","c","e">>, <<"e","f","f","e","c","t">>,
      <<"e","s","s","e","n","t","i","a","l">>, <<"f","o","c","u","s">>,
      <<"f","u","n","c","t","i","o","n">>, <<"g","r","a","s","s">>, <<"g","u","a","r","d">>,
      <<"i","m","a","g","e">>, <<"i","m","m","e","d","i","a","t","e">>,
      <<"p","r","i","m","a","r","y">>, <<"p","r","o","u","d">>, <<"r","e","m","a","i","n">>,
      <<"r","e","s","t">>, <<"s","e","p","a","r","a","t","e">>, <<"s","i","t","e">>,
      <<"t","a","i","l">>, <<"t","r","o","u","b","l","e">>,
      <<"a","d","v","e","r","t","i","s","e">>, <<"a","w","a","r","e">>,
      <<"b","a","t","t","e","r","y">>, <<"b","l","a","c","k">>, <<"c","i","t","y">>,
      <<"c","l","e","a","n">>, <<"c","o","u","n","t","r","y">>, <<"d","e","v","e","l","o","p">>,
      <<"e","l","e","c","t","r","i","c">>, <<"e","v","e","n","t","u","a","l","l","y">>,
      <<"f","a","c","t">>, <<"g","l","a","s","s">>, <<"h","i","s","t","o","r","y">>,
      <<"n","a","t","u","r","e">>, <<"p","e","o","p","l","e">>, <<"p","l","a","s","t","i","c">>,
      <<"p","r","o","b","l","e","m">>, <<"s","t","r","e","e","t">>, <<"a","l","o","n","e">>,
      <<"p","r","o","f","e","s","s","i","o","n","a","l">>, <<"a","p","p","e","a","l">>,
      <<"a","s","s","u","m","e">>, <<"b","o","r","r","o","w">>, <<"c","l","i","e","n","t">>,
      <<"d","o","w","n","t","o","w","n">>, <<"d","u","l","l">>,
      <<"e","m","b","a","r","r","a","s","s">>, <<"f","a","r","e">>, <<"f","o","r","m","e","r">>,
      <<"f","o","u","n","d">>, <<"i","n","v","e","s","t">>, <<"l","o","a","n">>,
      <<"p","r","a","c","t","i","c","a","l">>, <<"q","u","a","r","t","e","r">>,
      <<"s","a","l","a","r","y">>, <<"s","c","h","o","l","a","r","s","h","i","p">>,
      <<"t","e","m","p","o","r","a","r","y">>, <<"t","r","e","a","s","u","r","e">>,
      <<"u","r","g","e">>, <<"c","o","a","c","h">>, <<"c","o","n","t","r","o","l">>,
      <<"d","e","s","c","r","i","p","t","i","o","n">>, <<"d","i","r","e","c","t">>,
      <<"e","x","a","m">>, <<"e","x","a","m","p","l","e">>, <<"l","i","m","i","t">>,
      <<"l","o","c","a","l">>, <<"m","a","g","i","c","a","l">>, <<"m","a","i","l">>,
      <<"n","o","v","e","l">>, <<"o","u","t","l","i","n","e">>, <<"p","o","e","t">>,
      <<"p","r","i","n","t">>, <<"s","c","e","n","e">>, <<"s","h","e","e","t">>,
      <<"s","i","l","l","y">>, <<"s","t","o","r","e">>, <<"s","u","f","f","e","r">>,
      <<"t","e","c","h","n","o","l","o","g","y">>, <<"a","c","r","o","s","s">>,
      <<"b","r","e","a","t","h","e">>, <<"c","h","a","r","a","c","t","e","r","i","s","t","i","c">>,
      <<"c","o","n","s","u","m","e">>, <<"e","x","c","i","t","e">>,
      <<"e","x","t","r","e","m","e","l","y">>, <<"f","e","a","r">>,
      <<"f","o","r","t","u","n","a","t","e">>, <<"h","a","p","p","e","n">>,
      <<"l","e","n","g","t","h">>, <<"m","i","s","t","a","k","e">>,
      <<"o","b","s","e","r","v","e">>, <<"o","p","p","o","r","t","u","n","i","t","y">>,
      <<"p","r","i","z","e">>, <<"r","a","c","e">>, <<"r","e","a","l","i","z","e">>,
      <<"r","e","s","p","o","n","d">>, <<"r","i","s","k">>, <<"w","o","n","d","e","r">>,
      <<"y","e","t">>, <<"a","r","t">>, <<"c","o","n","t","a","i","n">>,
      <<"d","e","l","i","c","i","o","u","s">>, <<"d","i","e","t">>,
      <<"a","c","c","o","u","n","t","i","n","g">>, <<"i","n","j","u","s","t","i","c","e">>,
      <<"i","n","t","e","r","n","a","t","i","o","n","a","l">>, <<"l","a","w","y","e","r">>,
      <<"p","o","l","i","c","y">> }

\* b2Words, remote-enabled script (add_cefr_levels.js lines 194-210)
basic_b2Words ==
    { <<"a","p","a","r","t">>, <<"a","t","t","r","i","b","u","t","e">>,
      <<"b","i","l","i","n","g","u","a","l">>, <<"c","o","m","p","l","e","t","e","l","y">>,
      <<"d","a","s","h">>, <<"d","i","s","g","u","s","t">>,
      <<"f","a","s","h","i","o","n","a","b","l","e">>, <<"f","o","r","e","i","g","n">>,
      <<"g","u","l","f">>, <<"m","i","r","r","o","r">>, <<"n","a","t","u","r","a","l">>,
      <<"n","o","w","a","d","a","y","s">>, <<"p","a","r","t","i","c","i","p","a","n","t">>,
      <<"r","i","t","u","a","l">>, <<"s","p","o","k","e","n">>, <<"s","p","o","r","t">>,
      <<"s","u","r","p","r","i","s","e","d">>, <<"t","e","n","s","e">>,
      <<"t","o","t","a","l","l","y">>, <<"v","a","g","u","e">>, <<"a","l","l","o","w">>,
      <<"a","n","n","o","u","n","c","e">>, <<"b","e","s","i","d","e">>,
      <<"c","h","a","l","l","e","n","g","e">>, <<"c","l","a","i","m">>,
      <<"c","o","n","d","i","t","i","o","n">>, <<"c","o","n","t","r","i","b","u","t","e">>,
      <<"d","i","f","f","e","r","e","n","c","e">>, <<"d","i","v","i","d","e">>,
      <<"e","x","p","e","r","t">>, <<"f","a","m","o","u","s">>, <<"f","o","r","c","e">>,
      <<"h","a","r","m">>, <<"l","a","y">>, <<"p","e","a","c","e">>, <<"p","r","i","n","c","e">>,
      <<"p","r","o","t","e","c","t">>, <<"s","e","n","s","e">>, <<"s","u","d","d","e","n">>,
      <<"t","h","e","r","e","f","o","r","e">>, <<"a","c","c","e","p","t">>,
      <<"a","r","r","a","n","g","e">>, <<"a","t","t","e","n","d">>, <<"c","h","a","s","e">>,
      <<"c","o","n","t","r","a","s","t">>, <<"e","n","c","o","u","r","a","g","e">>,
      <<"f","a","m","i","l","i","a","r">>, <<"g","r","a","b">>, <<"h","a","n","g">>,
      <<"h","u","g","e">>, <<"n","e","c","e","s","s","a","r","y">>,
      <<"p","a","t","t","e","r","n">>, <<"p","r","o","p","o","s","e">>,
      <<"p","u","r","p","o","s","e">>, <<"r","e","l","e","a","s","e">>,
      <<"r","e","q","u","i","r","e">>, <<"s","a","t","i","s","f","i","e","d">>,
      <<"s","i","n","g","l","e">>, <<"t","e","a","r">>, <<"t","h","e","o","r","y">>,
      <<"a","d","v","a","n","c","e">>, <<"a","t","h","l","e","t","e">>,
      <<"a","v","e","r","a","g","e">>, <<"b","e","h","a","v","i","o","r">>,
      <<"b","e","h","i","n","d">>, <<"c","o","u","r","s","e">>, <<"l","o","w","e","r">>,
      <<"m","a","t","c","h">>, <<"m","e","m","b","e","r">>, <<"m","e","n","t","a","l">>,
      <<"p","a","s","s","e","n","g","e","r">>, <<"p","e","r","s","o","n","a","l","i","t","y">>,
      <<"p","o","e","m">>, <<"p","o","l","e">>, <<"r","e","m","o","v","e">>,
      <<"s","a","f","e","t","y">>, <<"s","h","o","o","t">>, <<"s","o","u","n","d">>,
      <<"s","w","i","m">>, <<"w","e","b">>, <<"b","l","o","c","k">>, <<"b","u","r","y">>,
      <<"c","h","e","e","r">>, <<"c","o","m","p","l","e","x">>, <<"c","r","i","t","i","c">>,
      <<"d","i","r","e","c","t","i","o","n">>, <<"e","v","e","n","t">>,
      <<"e","x","e","r","c","i","s","e">>, <<"f","r","i","e","n","d","s","h","i","p">>,
      <<"g","u","i","d","e">>, <<"l","a","c","k">>, <<"p","e","r","f","o","r","m">>,
      <<"b","r","i","g","h","t">>, <<"a","c","t","u","a","l">>, <<"a","m","a","z","e">>,
      <<"c","h","a","r","g","e">>, <<"c","o","m","f","o","r","t">>,
      <<"c","o","n","t","a","c","t">>, <<"c","u","s","t","o","m","e","r">>,
      <<"d","e","l","i","v","e","r">>, <<"e","a","r","n">>, <<"g","a","t","e">>,
      <<"i","n","c","l","u","d","e">>, <<"m","a","n","a","g","e">>,
      <<"m","y","s","t","e","r","y">>, <<"o","c","c","u","r">>,
      <<"o","p","p","o","s","i","t","e">>, <<"p","l","a","t","e">>,
      <<"r","e","c","e","i","v","e">>, <<"r","e","w","a","r","d">>, <<"s","e","t">>,
      <<"s","t","e","a","l">>, <<"t","h","i","e","f">> }

\* c1Words, remote-enabled script (add_cefr_levels.js lines 213-217)
basic_c1Words ==
    { <<"e","x","c","h","a","n","g","e">>, <<"a","p","p","e","a","r">>, <<"b","a","s","e">>,
      <<"b","r","a","i","n">>, <<"c","a","r","e","e","r">>, <<"c","l","e","r","k">>,
      <<"e","f","f","o","r","t">>, <<"e","n","t","e","r">>,
      <<"e","x","c","e","l","l","e","n","t">>, <<"h","e","r","o">>, <<"h","u","r","r","y">>,
      <<"i","n","f","o","r","m">>, <<"l","a","t","e","r">>, <<"l","e","a","v","e">>,
      <<"l","o","c","a","t","e">>, <<"n","u","r","s","e">>,
      <<"o","p","e","r","a","t","i","o","n">>, <<"p","a","i","n">>, <<"r","e","f","u","s","e">>,
      <<"t","h","o","u","g","h">>, <<"v","a","r","i","o","u","s">> }

\* c2Words, remote-enabled script (add_cefr_levels.js lines 220-222)
basic_c2Words ==
    { <<"s","o","p","h","i","s","t","i","c","a","t","e","d">>,
      <<"u","n","p","r","e","c","e","d","e","n","t","e","d">>,
      <<"m","a","n","i","f","e","s","t","a","t","i","o","n">>,
      <<"c","o","n","t","e","m","p","o","r","a","r","y">>, <<"a","m","b","i","g","u","o","u","s">> }
----------------------------------------------------------------------------
(* The local classifier of add_cefr_levels_offline.js.                     *)

\* heuristicOffline with the lowercase-letter test of its first band dropped.
heuristicOffline_noLetterTest(text) ==
    IF Len(text) <= 4 THEN A1
    ELSE IF Len(text) <= 6 THEN A2
    ELSE IF Len(text) <= 8 THEN B1
    ELSE IF Len(text) <= 10 THEN B2
    ELSE C1

\* The length heuristic for a word of no tier.
heuristicOffline(text) ==
    IF Len(text) <= 4 /\ isLowerLetters(text) THEN A1
    ELSE IF Len(text) <= 6 THEN A2
    ELSE IF Len(text) <= 8 THEN B1
    ELSE IF Len(text) <= 10 THEN B2
    ELSE C1

\* lookupOffline with the C2 tier never consulted.
lookupOffline_noC2Tier(text) ==
    IF text \in a1Words THEN A1
    ELSE IF text \in a2Words THEN A2
    ELSE IF text \in b1Words THEN B1
    ELSE IF text \in b2Words THEN B2
    ELSE IF text \in c1Words THEN C1
    ELSE heuristicOffline(text)

\* The tier chain: the first tier that has the word decides.
lookupOffline(text) ==
    IF text \in a1Words THEN A1
    ELSE IF text \in a2Words THEN A2
    ELSE IF text \in b1Words THEN B1
    ELSE IF text \in b2Words THEN B2
    ELSE IF text \in c1Words THEN C1
    ELSE IF text \in c2Words THEN C2
    ELSE heuristicOffline(text)

\* maxLevelValue with Math.min in the place of Math.max.
maxLevelValue_min(levels) == SetMin({levelValues(levels[q]) : q \in 1..Len(levels)})

\* Math.max(...levels.map(level => levelValues[level] || 1))
maxLevelValue(levels) == SetMax({levelValues(levels[q]) : q \in 1..Len(levels)})

RECURSIVE getCEFRLevelOffline(_)
RECURSIVE analyzePhrase(_)

analyzePhrase(phrase) ==
    LET words == SelectSeq(splitWhiteSpace(removePunctuation(toLowerCase(phrase))),
                           LAMBDA w : Len(w) > 0)
    IN  IF Len(words) = 0
        THEN A1
        ELSE LET levels == [q \in 1..Len(words) |-> getCEFRLevelOffline(words[q])]
             IN  levelNames[maxLevelValue(levels) + 1]

getCEFRLevelOffline(text0) ==
    LET text == trim(toLowerCase(text0))
    IN  IF includes(text, " ")
        THEN analyzePhrase(text)
        ELSE lookupOffline(text)

----------------------------------------------------------------------------
(* The local classifier of add_cefr_levels.js.                             *)

\* heuristicBasic with length bands of its own.
heuristicBasic_shortBands(text) ==
    IF Len(text) <= 3 /\ isLowerLetters(text) THEN A1
    ELSE IF Len(text) <= 5 THEN A2
    ELSE IF Len(text) <= 7 THEN B1
    ELSE IF Len(text) <= 9 THEN B2
    ELSE C1

\* The heuristic of getBasicCEFRLevel for a word of no tier.
heuristicBasic(text) ==
    IF Len(text) <= 4 /\ isLowerLetters(text) THEN A1
    ELSE IF Len(text) <= 6 THEN A2
    ELSE IF Len(text) <= 8 THEN B1
    ELSE IF Len(text) <= 10 THEN B2
    ELSE C1

lookupBasic(text) ==
    IF text \in basic_a1Words THEN A1
    ELSE IF text \in basic_a2Words THEN A2
    ELSE IF text \in basic_b1Words THEN B1
    ELSE IF text \in basic_b2Words THEN B2
    ELSE IF text \in basic_c1Words THEN C1
    ELSE IF text \in basic_c2Words THEN C2
    ELSE heuristicBasic(text)

RECURSIVE getBasicCEFRLevel(_)
RECURSIVE analyzePhraseBasic(_)

analyzePhraseBasic(phrase) ==
    LET words == SelectSeq(splitWhiteSpace(removePunctuation(toLowerCase(phrase))),
                           LAMBDA w : Len(w) > 0)
    IN  IF Len(words) = 0
        THEN A1
        ELSE LET levels == [q \in 1..Len(words) |-> getBasicCEFRLevel(words[q])]
             IN  levelNames[maxLevelValue(levels) + 1]

getBasicCEFRLevel(text0) ==
    LET text == trim(toLowerCase(text0))
    IN  IF includes(text, " ")
        THEN analyzePhraseBasic(text)
        ELSE lookupBasic(text)

----------------------------------------------------------------------------
(* The remote lookup of add_cefr_levels.js: queryAPI and getCEFRLevel.     *)

UNKNOWN == << "U", "N", "K", "N", "O", "W", "N" >>

\* A field of the parsed response: absent (or any falsy value), a string, or
\* any other truthy value (a number, an object, true).
Absent      == [t |-> "absent", s |-> <<>>]
StringOf(s) == [t |-> "string", s |-> s]
OtherValue  == [t |-> "other", s |-> <<>>]

\* `field` as the condition of an if.
truthy(field) == field.t = "other" \/ (field.t = "string" /\ field.s # <<>>)

\* The state of a queryAPI promise and of its request.
\* cause: the event and branch that settled it ("level", "noLevel", "unparsable",
\* "typeError" for the response end; "error"; "timeout").
NoCall ==
    [state |-> "idle", value |-> <<>>, cause |-> "none",
     destroyed |-> FALSE, errorEmitted |-> FALSE,
     aborted |-> FALSE, ended |-> FALSE]

Pending ==
    [state |-> "pending", value |-> <<>>, cause |-> "none",
     destroyed |-> FALSE, errorEmitted |-> FALSE,
     aborted |-> FALSE, ended |-> FALSE]

\* What was not written yet.
NotWritten == [written |-> FALSE, text |-> <<>>]

\* resolve(field.toUpperCase()): a TypeError, caught and turned into reject(error),
\* when the field is not a string.
resolveLevel(call, field) ==
    IF field.t = "string"
    THEN [call EXCEPT !.state = "resolved", !.value = toUpperCase(field.s), !.cause = "level"]
    ELSE [call EXCEPT !.state = "rejected", !.cause = "typeError"]

\* res.on('end'): the promise after the response body was received whole; a
\* promise already settled stays as it is.
onEnd(call, body) ==
    IF call.state # "pending"
    THEN [call EXCEPT !.ended = TRUE]
    ELSE IF ~ body.parsable
    THEN [call EXCEPT !.state = "rejected", !.cause = "unparsable", !.ended = TRUE]
    ELSE IF truthy(body.wordLevel)
    THEN resolveLevel([call EXCEPT !.ended = TRUE], body.wordLevel)
    ELSE IF truthy(body.level)
    THEN resolveLevel([call EXCEPT !.ended = TRUE], body.level)
    ELSE [call EXCEPT !.state = "resolved", !.value = UNKNOWN, !.cause = "noLevel",
                      !.ended = TRUE]

\* onError settling again a promise that is settled.
onError_overrides(call) ==
    [call EXCEPT !.state = "rejected", !.cause = "error", !.errorEmitted = TRUE]

\* req.on('error'): reject(error); a promise already settled stays as it is.
onError(call) ==
    IF call.state = "pending"
    THEN [call EXCEPT !.state = "rejected", !.cause = "error", !.errorEmitted = TRUE]
    ELSE [call EXCEPT !.errorEmitted = TRUE]

\* req.setTimeout(5000, ...): req.destroy(), then reject(new Error('Timeout')); a
\* promise already settled stays as it is.
onTimeout(call) ==
    IF call.state = "pending"
    THEN [call EXCEPT !.state = "rejected", !.cause = "timeout", !.destroyed = TRUE]
    ELSE [call EXCEPT !.destroyed = TRUE]

\* getCEFRLevel without the test `apiResult !== 'UNKNOWN'`.
getCEFRLevel_returnsUnknown(text0, call) ==
    LET text == trim(text0)
    IN  IF call.state = "resolved" /\ call.value # <<>>
        THEN call.value
        ELSE IF includes(text, " ")
        THEN analyzePhraseBasic(text)
        ELSE getBasicCEFRLevel(text)

\* getCEFRLevel once its await of queryAPI has settled. `apiResult && apiResult !==
\* 'UNKNOWN'` returns the remote value; a rejection is caught; then the local
\* path: analyzePhrase for a text with a space, getBasicCEFRLevel otherwise.
getCEFRLevel(text0, call) ==
    LET text == trim(text0)
    IN  IF includes(text, " ")
        THEN IF call.state = "resolved" /\ call.value # <<>> /\ call.value # UNKNOWN
             THEN call.value
             ELSE analyzePhraseBasic(text)
        ELSE IF call.state = "resolved" /\ call.value # <<>> /\ call.value # UNKNOWN
             THEN call.value
             ELSE getBasicCEFRLevel(text)

----------------------------------------------------------------------------
(* The classifier functions called on their own: the strings they are      *)
(* called on, and one action per exported function.                        *)

\* Longest word of no tier among the inputs.
MaxWordLen == 12
\* Most tokens of a phrase among the inputs.
MaxTokens == 3

LexiconWords == a1Words \cup a2Words \cup b1Words \cup b2Words \cup c1Words \cup c2Words

BasicLexiconWords ==
    basic_a1Words \cup basic_a2Words \cup basic_b1Words
        \cup basic_b2Words \cup basic_c1Words \cup basic_c2Words

\* Words of no tier, of every length up to MaxWordLen: letters only, or ending
\* in a digit, an underscore or an apostrophe.
UnknownWords ==
    { [q \in 1..n |-> IF q < n THEN "z" ELSE c] :
        n \in 1..MaxWordLen, c \in {"z", "7", "_", "'"} }

upperFirst(w) == IF Len(w) = 0 THEN w ELSE << toUpperCaseChar(w[1]) >> \o Tail(w)

CaseVariants(w) == {w, upperFirst(w), toUpperCase(w)}

\* White space put before and after a word.
Paddings ==
    { << <<>>, <<>> >>, << << " " >>, <<>> >>, << <<>>, << "\t" >> >>,
      << << "\r", "\n" >>, << " ", " " >> >> }

VariantsOf(w) == { p[1] \o v \o p[2] : v \in CaseVariants(w), p \in Paddings }

WordInputs == UNION { VariantsOf(w) : w \in LexiconWords \cup UnknownWords }

\* One word of each tier, words of no tier, and tokens with punctuation.
PhraseTokens ==
    { <<"c","a","t">>, <<"g","r","e","a","t">>, <<"e","v","i","l">>, <<"w","e","b">>,
      <<"h","e","r","o">>, <<"a","m","b","i","g","u","o","u","s">>,
      <<"B","e","a","u","t","i","f","u","l">>, <<"d","o","n","'","t">>, <<"!","!">> }

Separators == { << " " >>, << ",", " ", " " >>, << "\t" >> }

RECURSIVE concatWith(_, _)
concatWith(parts, sep) ==
    IF Len(parts) = 0 THEN <<>>
    ELSE IF Len(parts) = 1 THEN parts[1]
    ELSE parts[1] \o sep \o concatWith(Tail(parts), sep)

PhraseInputs ==
    UNION { { concatWith(toks, sep) : toks \in [1..n -> PhraseTokens], sep \in Separators } :
            n \in 1..MaxTokens }

ClassifyInputs == WordInputs \cup PhraseInputs \cup { <<>>, << " " >>, << "!", " ", "?" >> }

\* The nesting of calls that is followed when the calls of a classification
\* are counted.
MaxNesting == 4

\* No script runs while a classifier function is called on its own.
NoRun ==
    /\ script = "none"
    /\ data = <<>>
    /\ pc = "idle"
    /\ lines = <<>>
    /\ i = 0
    /\ processedLines = <<>>
    /\ processedCount = 0
    /\ columns = <<>>
    /\ word = <<>>
    /\ cefrLevel = <<>>
    /\ api = NoCall
    /\ requests = <<>>
    /\ output = NotWritten
    /\ failure = "none"
    /\ history = <<>>

ClassifyInit ==
    /\ input \in ClassifyInputs
    /\ fn = "none"
    /\ result = <<>>
    /\ NoRun

CallGetCEFRLevelOffline ==
    /\ fn = "none"
    /\ fn' = "getCEFRLevelOffline"
    /\ result' = getCEFRLevelOffline(input)
    /\ UNCHANGED <<input, runVars>>

CallAnalyzePhrase ==
    /\ fn = "none"
    /\ fn' = "analyzePhrase"
    /\ result' = analyzePhrase(input)
    /\ UNCHANGED <<input, runVars>>

CallGetBasicCEFRLevel ==
    /\ fn = "none"
    /\ fn' = "getBasicCEFRLevel"
    /\ result' = getBasicCEFRLevel(input)
    /\ UNCHANGED <<input, runVars>>

CallAnalyzePhraseBasic ==
    /\ fn = "none"
    /\ fn' = "analyzePhraseBasic"
    /\ result' = analyzePhraseBasic(input)
    /\ UNCHANGED <<input, runVars>>

ClassifyNext ==
    \/ CallGetCEFRLevelOffline
    \/ CallAnalyzePhrase
    \/ CallGetBasicCEFRLevel
    \/ CallAnalyzePhraseBasic

SpecClassify == ClassifyInit /\ [][ClassifyNext]_vars

----------------------------------------------------------------------------
(* The annotators: processTSVFileOffline and processTSVFile.               *)

\* columns[3]: the text to classify (JavaScript index).
wordColumn == 3
\* columns[11]: the field the level is added to (JavaScript index).
levelColumn == 11
\* columns.length >= 12
minColumns == 12

\* line.replace(/\r?\n$/, ''): no m flag, so $ is the end of the string.
stripTerminator(line) ==
    IF Len(line) >= 1 /\ line[Len(line)] = "\n"
    THEN IF Len(line) >= 2 /\ line[Len(line) - 1] = "\r"
         THEN SubSeq(line, 1, Len(line) - 2)
         ELSE SubSeq(line, 1, Len(line) - 1)
    ELSE line

\* skipped without the test of the comment marker.
skipped_blankOnly(line) == trim(line) = <<>>

\* line.startsWith('#') || !line.trim()
skipped(line) == startsWith(line, "#") \/ trim(line) = <<>>

\* The trimmed text a line of the file gives to the classifier; the empty
\* string when the line is skipped, short, or has no text.
textOf(rawLine) ==
    LET line == stripTerminator(rawLine)
    IN  IF skipped(line) THEN <<>>
        ELSE IF Len(split(line, "\t")) >= minColumns
        THEN trim(split(line, "\t")[wordColumn + 1])
        ELSE <<>>

\* setLevelOffline writing the level over the field in every case.
setLevelOffline_overwrites(cols, level) == [cols EXCEPT ![levelColumn + 1] = level]

\* setLevelOffline appending the level with no space before it.
setLevelOffline_noSpace(cols, level) ==
    [cols EXCEPT ![levelColumn + 1] = IF trim(@) # <<>> THEN @ \o level ELSE level]

\* if (columns[11].trim()) columns[11] = columns[11] + ' ' + cefrLevel;
\* else columns[11] = cefrLevel;            (offline script)
setLevelOffline(cols, level) ==
    [cols EXCEPT ![levelColumn + 1] =
        IF trim(@) # <<>> THEN @ \o << " " >> \o level ELSE level]

\* The same statement of the remote-enabled script.
setLevelRemote(cols, level) ==
    [cols EXCEPT ![levelColumn + 1] =
        IF trim(@) # <<>> THEN @ \o << " " >> \o level ELSE level]

\* processLineOffline keeping only the first twelve columns of a data line.
processLineOffline_truncates(rawLine) ==
    LET line == stripTerminator(rawLine)
    IN  IF skipped(line) THEN line
        ELSE LET cols == split(line, "\t")
             IN  IF Len(cols) >= minColumns
                 THEN LET text == trim(cols[wordColumn + 1])
                          kept == SubSeq(cols, 1, minColumns)
                      IN  IF text # <<>>
                          THEN join(setLevelOffline(kept, getCEFRLevelOffline(text)), "\t")
                          ELSE join(kept, "\t")
                 ELSE line

\* processLineOffline classifying the lines that start with the comment marker.
processLineOffline_annotatesComments(rawLine) ==
    LET line == stripTerminator(rawLine)
    IN  IF trim(line) = <<>> THEN line
        ELSE LET cols == split(line, "\t")
             IN  IF Len(cols) >= minColumns
                 THEN LET text == trim(cols[wordColumn + 1])
                      IN  IF text # <<>>
                          THEN join(setLevelOffline(cols, getCEFRLevelOffline(text)), "\t")
                          ELSE join(cols, "\t")
                 ELSE line

\* One iteration of the loop of processTSVFileOffline: the line it pushes.
processLineOffline(rawLine) ==
    LET line == stripTerminator(rawLine)
    IN  IF skipped(line) THEN line
        ELSE LET cols == split(line, "\t")
             IN  IF Len(cols) >= minColumns
                 THEN LET text == trim(cols[wordColumn + 1])
                      IN  IF text # <<>>
                          THEN join(setLevelOffline(cols, getCEFRLevelOffline(text)), "\t")
                          ELSE join(cols, "\t")
                 ELSE line

\* One iteration of the loop of processTSVFile for a line it does not
\* classify: the line it pushes.
processLineRemote(rawLine) ==
    LET line == stripTerminator(rawLine)
    IN  IF skipped(line) THEN line
        ELSE LET cols == split(line, "\t")
             IN  IF Len(cols) >= minColumns THEN join(cols, "\t") ELSE line

----------------------------------------------------------------------------
(* The input files and the response bodies of the runs.                    *)

\* Most lines of an input file.
MaxLines == 2

\* The runs made in a row, each after the first on the output of the one
\* before it.
MaxRuns == 2

\* A line of n fields: the first, the text and the level field as given, an
\* "x" in every other field.
fieldsOf(n, first, text, level) ==
    [k \in 1..n |->
        IF k = 1 THEN first
        ELSE IF k = wordColumn + 1 THEN text
        ELSE IF k = levelColumn + 1 THEN level
        ELSE << "x" >>]

LineShapes ==
    { << 12, << "#", "n", "o", "t", "e" >>, << "c", "a", "t" >>, <<>> >>,
      << 5,  << "d" >>, << "c", "a", "t" >>, <<>> >>,
      << 11, << "d" >>, << "c", "a", "t" >>, <<>> >>,
      << 12, << "d" >>, << "c", "a", "t" >>, <<>> >>,
      << 12, << "d" >>, << " ", "G", "r", "e", "a", "t", " ", "e", "v", "i", "l", " " >>,
             << "t", " ", "u" >> >>,
      << 12, << "d" >>, << " " >>, << "t" >> >>,
      << 12, << " ", "#" >>, << "a", "m", "b", "i", "g", "u", "o", "u", "s" >>, << " " >> >>,
      << 13, << "d" >>, << "x", "y", "z", "z", "y", "p", "l", "u", "g", "h" >>,
             << "A", "1" >> >> }

InputLines ==
    { <<>>, << " ", " " >>, << "#", "s", "e", "p" >> }
        \cup { join(fieldsOf(s[1], s[2], s[3], s[4]), "\t") : s \in LineShapes }

LineTerminators == { << "\n" >>, << "\r", "\n" >> }

InputFiles ==
    UNION { { concatWith(ls, eol) : ls \in [1..n -> InputLines], eol \in LineTerminators } :
            n \in 1..MaxLines }

\* What JSON.parse makes of a response body: parsable or not, and the fields
\* response.word.level and response.level.
Body(parsable, wordLevel, level) ==
    [parsable |-> parsable, wordLevel |-> wordLevel, level |-> level]

Bodies ==
    { Body(FALSE, Absent, Absent),
      Body(TRUE, Absent, Absent),
      Body(TRUE, Absent, StringOf(<<>>)),
      Body(TRUE, Absent, StringOf(<< "a", "1" >>)),
      Body(TRUE, Absent, StringOf(<< "u", "n", "k", "n", "o", "w", "n" >>)),
      Body(TRUE, Absent, StringOf(<< "x", "x" >>)),
      Body(TRUE, Absent, OtherValue),
      Body(TRUE, StringOf(<< "c", "2" >>), StringOf(<< "a", "1" >>)) }

----------------------------------------------------------------------------
(* The runs of the two scripts.                                            *)

NoClassifierCall ==
    /\ input = <<>>
    /\ fn = "none"
    /\ result = <<>>

Init ==
    /\ NoClassifierCall
    /\ script \in {"offline", "remote"}
    /\ data \in InputFiles
    /\ pc = "read"
    /\ lines = <<>>
    /\ i = 0
    /\ processedLines = <<>>
    /\ processedCount = 0
    /\ columns = <<>>
    /\ word = <<>>
    /\ cefrLevel = <<>>
    /\ api = NoCall
    /\ requests = <<>>
    /\ output = NotWritten
    /\ failure = "none"
    /\ history = <<>>

\* await fs.readFile(inputFile, 'utf-8'); const lines = data.split('\n');
ReadFile ==
    /\ pc = "read"
    /\ lines' = split(data, "\n")
    /\ requests' = [k \in 1..Len(lines') |-> 0]
    /\ pc' = "loop"
    /\ UNCHANGED <<classifyVars, history, script, data, i, processedLines, processedCount,
                   columns, word, cefrLevel, api, output, failure>>

\* fs.readFile rejects: the catch reports it and calls process.exit(1).
ReadFileFails ==
    /\ pc = "read"
    /\ pc' = "failed"
    /\ failure' = "read"
    /\ UNCHANGED <<classifyVars, history, script, data, lines, i, processedLines, processedCount,
                   columns, word, cefrLevel, api, requests, output>>

\* OfflineLine pushing nothing for a comment or blank line.
OfflineLine_dropsSkipped ==
    /\ script = "offline"
    /\ pc = "loop"
    /\ i < Len(lines)
    /\ processedLines' = IF skipped(stripTerminator(lines[i + 1]))
                         THEN processedLines
                         ELSE Append(processedLines, processLineOffline(lines[i + 1]))
    /\ processedCount' = IF textOf(lines[i + 1]) # <<>>
                         THEN processedCount + 1 ELSE processedCount
    /\ i' = i + 1
    /\ UNCHANGED <<classifyVars, history, script, data, pc, lines, columns, word, cefrLevel,
                   api, requests, output, failure>>

\* One iteration of the loop of processTSVFileOffline.
OfflineLine ==
    /\ script = "offline"
    /\ pc = "loop"
    /\ i < Len(lines)
    /\ processedLines' = Append(processedLines, processLineOffline(lines[i + 1]))
    /\ processedCount' = IF textOf(lines[i + 1]) # <<>>
                         THEN processedCount + 1 ELSE processedCount
    /\ i' = i + 1
    /\ UNCHANGED <<classifyVars, history, script, data, pc, lines, columns, word, cefrLevel,
                   api, requests, output, failure>>

\* One iteration of the loop of processTSVFile for a line without a text to
\* classify.
RemoteLine ==
    /\ script = "remote"
    /\ pc = "loop"
    /\ i < Len(lines)
    /\ textOf(lines[i + 1]) = <<>>
    /\ processedLines' = Append(processedLines, processLineRemote(lines[i + 1]))
    /\ i' = i + 1
    /\ UNCHANGED <<classifyVars, history, script, data, pc, lines, processedCount, columns, word,
                   cefrLevel, api, requests, output, failure>>

\* RemoteRequest going on to the next line without the await: the request is
\* left pending and the line is pushed as it was read.
RemoteRequest_noAwait ==
    /\ script = "remote"
    /\ pc = "loop"
    /\ i < Len(lines)
    /\ textOf(lines[i + 1]) # <<>>
    /\ processedCount' = processedCount + 1
    /\ api' = Pending
    /\ requests' = [requests EXCEPT ![i + 1] = @ + 1]
    /\ processedLines' = Append(processedLines, stripTerminator(lines[i + 1]))
    /\ i' = i + 1
    /\ UNCHANGED <<classifyVars, history, script, data, pc, lines, columns, word,
                   cefrLevel, output, failure>>

\* An iteration of the loop of processTSVFile up to the await in getCEFRLevel:
\* queryAPI writes the request and returns its pending promise.
RemoteRequest ==
    /\ script = "remote"
    /\ pc = "loop"
    /\ i < Len(lines)
    /\ textOf(lines[i + 1]) # <<>>
    /\ columns' = split(stripTerminator(lines[i + 1]), "\t")
    /\ word' = textOf(lines[i + 1])
    /\ processedCount' = processedCount + 1
    /\ api' = Pending
    /\ requests' = [requests EXCEPT ![i + 1] = @ + 1]
    /\ pc' = "await"
    /\ UNCHANGED <<classifyVars, history, script, data, lines, i, processedLines, cefrLevel,
                   output, failure>>

\* The promise has settled as `call`: getCEFRLevel returns, the level goes into
\* columns[11], and the loop waits for its 100 ms pause.
Resume(call) ==
    /\ api' = call
    /\ cefrLevel' = getCEFRLevel(word, call)
    /\ columns' = setLevelRemote(columns, getCEFRLevel(word, call))
    /\ pc' = "pause"
    /\ UNCHANGED <<classifyVars, history, script, data, lines, i, processedLines, processedCount,
                   word, requests, output, failure>>

\* res.on('end') with the body received.
ResponseEnd ==
    /\ pc = "await"
    /\ api.state = "pending"
    /\ ~ api.aborted
    /\ \E body \in Bodies : Resume(onEnd(api, body))

\* The connection closes after the response has begun and before its end. The
\* response then emits 'aborted' and 'close' and never 'end', and the request
\* emits no 'error': of the handlers queryAPI registers (res 'data', res 'end',
\* req 'error', the timeout) none runs, and the promise stays pending.
ResponseAborted ==
    /\ pc = "await"
    /\ api.state = "pending"
    /\ ~ api.aborted
    /\ api' = [api EXCEPT !.aborted = TRUE]
    /\ UNCHANGED <<classifyVars, history, script, data, pc, lines, i, processedLines,
                   processedCount, columns, word, cefrLevel, requests, output, failure>>

\* req.on('error'): of the pending request, or of a request the timeout
\* callback has destroyed, whose promise is settled already.
RequestError ==
    \/ /\ pc = "await"
       /\ api.state = "pending"
       /\ ~ api.aborted
       /\ Resume(onError(api))
    \/ /\ api.destroyed
       /\ ~ api.errorEmitted
       /\ api' = onError(api)
       /\ UNCHANGED <<classifyVars, history, script, data, pc, lines, i, processedLines,
                      processedCount, columns, word, cefrLevel, requests, output, failure>>

\* RequestTimeout issuing the request again when the wait is over.
RequestTimeout_retries ==
    /\ pc = "await"
    /\ api.state = "pending"
    /\ ~ api.aborted
    /\ requests[i + 1] < 3
    /\ requests' = [requests EXCEPT ![i + 1] = @ + 1]
    /\ UNCHANGED <<classifyVars, history, script, data, pc, lines, i, processedLines,
                   processedCount, columns, word, cefrLevel, api, output, failure>>

\* The callback of req.setTimeout(5000, ...): the timer is the socket's, and
\* ends with it.
RequestTimeout ==
    /\ pc = "await"
    /\ api.state = "pending"
    /\ ~ api.aborted
    /\ Resume(onTimeout(api))

\* The 100 ms pause is over: the line is rebuilt and pushed.
PauseElapsed ==
    /\ pc = "pause"
    /\ processedLines' = Append(processedLines, join(columns, "\t"))
    /\ i' = i + 1
    /\ pc' = "loop"
    /\ UNCHANGED <<classifyVars, history, script, data, lines, processedCount, columns, word,
                   cefrLevel, api, requests, output, failure>>

\* await fs.writeFile(outputFile, processedLines.join('\n'), 'utf-8');
WriteFile ==
    /\ pc = "loop"
    /\ i = Len(lines)
    /\ output' = [written |-> TRUE, text |-> join(processedLines, "\n")]
    /\ pc' = "done"
    /\ UNCHANGED <<classifyVars, history, script, data, lines, i, processedLines, processedCount,
                   columns, word, cefrLevel, api, requests, failure>>

\* fs.writeFile rejects: the catch reports it and calls process.exit(1). The
\* write is made to outputFile itself and nothing removes the file afterwards:
\* either the file could not be opened and nothing was produced, or it was
\* opened (created, truncated) and the write of the text failed, which leaves
\* a file without the text.
WriteFileFails ==
    /\ pc = "loop"
    /\ i = Len(lines)
    /\ output' \in { NotWritten, [written |-> TRUE, text |-> <<>>] }
    /\ pc' = "failed"
    /\ failure' = "write"
    /\ UNCHANGED <<classifyVars, history, script, data, lines, i, processedLines,
                   processedCount, columns, word, cefrLevel, api, requests>>

\* processTSVFileOffline is run again, on the file the run before it wrote.
RunAgainOnOutput ==
    /\ script = "offline"
    /\ pc = "done"
    /\ Len(history) + 1 < MaxRuns
    /\ history' = Append(history, data)
    /\ data' = output.text
    /\ pc' = "read"
    /\ lines' = <<>>
    /\ i' = 0
    /\ processedLines' = <<>>
    /\ processedCount' = 0
    /\ requests' = <<>>
    /\ output' = NotWritten
    /\ UNCHANGED <<classifyVars, script, columns, word, cefrLevel, api, failure>>

Next ==
    \/ ReadFile
    \/ ReadFileFails
    \/ OfflineLine
    \/ RemoteLine
    \/ RemoteRequest
    \/ ResponseEnd
    \/ ResponseAborted
    \/ RequestError
    \/ RequestTimeout
    \/ PauseElapsed
    \/ WriteFile
    \/ WriteFileFails
    \/ RunAgainOnOutput

Spec == Init /\ [][Next]_vars

\* A loop iteration, seen on the control state alone: the line is pushed and
\* the index advances, or the iteration stops at the await of getCEFRLevel.
LoopIterates ==
    /\ pc = "loop"
    /\ i < Len(lines)
    /\ \/ i' = i + 1 /\ pc' = "loop"
       \/ i' = i /\ pc' = "await"

\* The timeout callback, seen on the control state and the request alone.
TimeoutFires ==
    /\ pc = "await"
    /\ api.state = "pending"
    /\ ~ api.aborted
    /\ api' = onTimeout(api)
    /\ pc' = "pause"

\* What the event loop guarantees: a timer that is due fires (the 5 s timeout
\* of a request whose socket is open, the 100 ms pause), a loop iteration that
\* can run runs, and fs.readFile and fs.writeFile end, in success or in
\* failure. The network guarantees nothing: a response, its end or a request
\* error may never come. LoopIterates is enabled exactly when OfflineLine,
\* RemoteLine or RemoteRequest is, and TimeoutFires exactly when
\* RequestTimeout is; their steps in a behaviour of Spec are the steps of
\* those actions.
Fairness ==
    /\ WF_vars(ReadFile \/ ReadFileFails)
    /\ WF_<<pc, i>>(LoopIterates)
    /\ WF_<<pc, api>>(TimeoutFires)
    /\ WF_vars(PauseElapsed)
    /\ WF_vars(WriteFile \/ WriteFileFails)

FairSpec == Spec /\ Fairness

\* The events of a request in whatever order: each of response end, request
\* error and timeout may also come after the promise was settled by another.
LateResponseEnd ==
    /\ api.state \in {"resolved", "rejected"}
    /\ ~ api.ended
    /\ \E body \in Bodies : api' = onEnd(api, body)
    /\ UNCHANGED <<classifyVars, history, script, data, pc, lines, i, processedLines,
                   processedCount, columns, word, cefrLevel, requests, output, failure>>

LateRequestError ==
    /\ api.state \in {"resolved", "rejected"}
    /\ ~ api.errorEmitted
    /\ api' = onError(api)
    /\ UNCHANGED <<classifyVars, history, script, data, pc, lines, i, processedLines,
                   processedCount, columns, word, cefrLevel, requests, output, failure>>

LateRequestTimeout ==
    /\ api.state \in {"resolved", "rejected"}
    /\ ~ api.destroyed
    /\ api' = onTimeout(api)
    /\ UNCHANGED <<classifyVars, history, script, data, pc, lines, i, processedLines,
                   processedCount, columns, word, cefrLevel, requests, output, failure>>

\* The input files of one line, with and without its terminator.
EventFiles == InputLines \cup { l \o eol : l \in InputLines, eol \in LineTerminators }

\* The runs on the input files of one line, with the events in whatever order.
EventsInit == Init /\ data \in EventFiles

EventsNext == Next \/ LateResponseEnd \/ LateRequestError \/ LateRequestTimeout

SpecEvents == EventsInit /\ [][EventsNext]_vars

\* The classifier functions called on their own, and the runs of the scripts.
BothInit == ClassifyInit \/ Init

BothNext == (pc = "idle" /\ ClassifyNext) \/ Next

SpecBoth == BothInit /\ [][BothNext]_vars
----------------------------------------------------------------------------
(* Properties of the classifier functions (SpecClassify).                  *)

LevelOrder == << A1, A2, B1, B2, C1, C2 >>

rankOf(level) == CHOOSE q \in 1..6 : LevelOrder[q] = level

\* The highest level of a non-empty set of levels, in the order of LevelOrder.
highestLevel(S) == CHOOSE l \in S : \A m \in S : rankOf(m) <= rankOf(l)

\* The tokens of a phrase: the maximal runs of characters that are not white
\* space, in the lower-cased phrase with every character that is neither a
\* word character nor white space removed.
tokensOf(phrase) ==
    LET s == SelectSeq([q \in 1..Len(phrase) |-> toLowerCaseChar(phrase[q])],
                       LAMBDA c : c \in WordChars \cup WhiteSpaceChars)
        isToken(q, j) ==
            /\ q <= j
            /\ \A k \in q..j : s[k] \notin WhiteSpaceChars
            /\ (q = 1 \/ s[q - 1] \in WhiteSpaceChars)
            /\ (j = Len(s) \/ s[j + 1] \in WhiteSpaceChars)
    IN  { SubSeq(s, q, j) : <<q, j>> \in { x \in (1..Len(s)) \X (1..Len(s)) : isToken(x[1], x[2]) } }

\* C1: for every phrase that yields at least one token, analyzePhrase returns
\* the highest, in the order A1 < A2 < B1 < B2 < C1 < C2, of the levels the
\* single-word path (tier chain, then length heuristic) gives its tokens.
C1_PhraseIsMaxOfTokens ==
    /\ (fn = "analyzePhrase" /\ tokensOf(input) # {})
          => result = highestLevel({ lookupOffline(t) : t \in tokensOf(input) })
    /\ (fn = "analyzePhraseBasic" /\ tokensOf(input) # {})
          => result = highestLevel({ lookupBasic(t) : t \in tokensOf(input) })

\* A phrase of tokens of different levels was classified, and its level is
\* not the level of every token.
C1_Witness ==
    /\ fn = "analyzePhrase"
    /\ Cardinality({ lookupOffline(t) : t \in tokensOf(input) }) >= 3
    /\ result = C2

\* The position of the lowest tier that has the word.
lowestTier(w, tiers) == SetMin({ q \in 1..6 : w \in tiers[q] })

\* The word an input is a variant of: its white space dropped, lower-cased.
baseWord(s) ==
    [q \in 1..Len(SelectSeq(s, LAMBDA c : c \notin WhiteSpaceChars)) |->
        toLowerCaseChar(SelectSeq(s, LAMBDA c : c \notin WhiteSpaceChars)[q])]

\* C2: a word of the lexicon, in any upper/lower-case variant and with white
\* space added before or after it, gets the level of the lowest tier that has
\* it (of its only tier, when it is in exactly one).
C2_LexiconWordGetsItsTier ==
    /\ (fn = "getCEFRLevelOffline" /\ baseWord(input) \in LexiconWords
            /\ input \in VariantsOf(baseWord(input)))
          => result = LevelOrder[lowestTier(baseWord(input),
                          << a1Words, a2Words, b1Words, b2Words, c1Words, c2Words >>)]
    /\ (fn = "getBasicCEFRLevel" /\ baseWord(input) \in BasicLexiconWords
            /\ input \in VariantsOf(baseWord(input)))
          => result = LevelOrder[lowestTier(baseWord(input),
                          << basic_a1Words, basic_a2Words, basic_b1Words,
                             basic_b2Words, basic_c1Words, basic_c2Words >>)]

\* An upper-case, padded variant of a word of the C2 tier was classified.
C2_Witness ==
    /\ fn = "getCEFRLevelOffline"
    /\ baseWord(input) \in c2Words
    /\ input # baseWord(input)
    /\ input[1] \in WhiteSpaceChars
    /\ \E q \in 1..Len(input) : input[q] \in UpperSet
    /\ result = C2

\* The five length bands as C3 states them.
lengthBand(w) ==
    IF Len(w) <= 4 /\ Len(w) >= 1 /\ (\A q \in 1..Len(w) : w[q] \in LowerSet) THEN A1
    ELSE IF Len(w) <= 6 THEN A2
    ELSE IF Len(w) <= 8 THEN B1
    ELSE IF Len(w) <= 10 THEN B2
    ELSE C1

\* The words of no tier made of lowercase letters only.
UnknownLetterWords == { w \in UnknownWords : \A q \in 1..Len(w) : w[q] \in LowerSet }

\* C3: a single word of no tier gets the level of its length band; it never
\* gets C2; and no shorter word of lowercase letters and of no tier gets a
\* higher level than a longer one.
C3_HeuristicBands ==
    LET w == trim(toLowerCase(input))
    IN  /\ (fn = "getCEFRLevelOffline" /\ Len(w) >= 1 /\ ~ includes(w, " ")
                /\ w \notin LexiconWords)
              => /\ result = lengthBand(w)
                 /\ result # C2
                 /\ w \in UnknownLetterWords
                      => \A v \in UnknownLetterWords :
                            /\ Len(v) <= Len(w) => rankOf(heuristicOffline(v)) <= rankOf(result)
                            /\ Len(v) >= Len(w) => rankOf(heuristicOffline(v)) >= rankOf(result)
        /\ (fn = "getBasicCEFRLevel" /\ Len(w) >= 1 /\ ~ includes(w, " ")
                /\ w \notin BasicLexiconWords)
              => /\ result = lengthBand(w)
                 /\ result # C2
                 /\ w \in UnknownLetterWords
                      => \A v \in UnknownLetterWords :
                            /\ Len(v) <= Len(w) => rankOf(heuristicBasic(v)) <= rankOf(result)
                            /\ Len(v) >= Len(w) => rankOf(heuristicBasic(v)) >= rankOf(result)

\* A word of no tier, of at most four characters and not of letters only, was
\* classified A2.
C3_Witness ==
    /\ fn = "getCEFRLevelOffline"
    /\ input \in UnknownWords
    /\ Len(input) <= 4
    /\ \E q \in 1..Len(input) : input[q] \notin LowerSet
    /\ result = A2

----------------------------------------------------------------------------
(* Properties of the runs (Spec).                                          *)

\* The positions of the tabs of a line, its number of tab-separated fields,
\* and its j-th field (j from 1).
tabsOf(s) == { p \in 1..Len(s) : s[p] = "\t" }

fieldCount(s) == Cardinality(tabsOf(s)) + 1

nthTab(s, n) == CHOOSE p \in tabsOf(s) : Cardinality({ t \in tabsOf(s) : t < p }) = n - 1

fieldAt(s, j) ==
    SubSeq(s, IF j = 1 THEN 1 ELSE nthTab(s, j - 1) + 1,
              IF j = fieldCount(s) THEN Len(s) ELSE nthTab(s, j) - 1)

isBlank(s) == \A p \in 1..Len(s) : s[p] \in WhiteSpaceChars

isComment(s) == Len(s) >= 1 /\ s[1] = "#"

\* A line the annotator copies: blank, a comment, or of fewer than 12 fields.
isPassThrough(s) == isBlank(s) \/ isComment(s) \/ fieldCount(s) < 12

\* A line the annotator classifies: not copied, and with a text at index 3.
isClassified(s) == ~ isPassThrough(s) /\ ~ isBlank(fieldAt(s, 4))

\* The lines whose iteration has begun.
begun == IF pc \in {"await", "pause"} THEN i + 1 ELSE i

\* The ways the remote lookup is unavailable.
Unavailable == {"timeout", "error", "unparsable", "noLevel"}

\* C4: when the remote lookup of an item ends unavailable (timeout, network
\* error, unparsable body, no level field), getCEFRLevel returns the level
\* getBasicCEFRLevel gives the item, no failure is raised, and the loop goes
\* on to its pause, from where it handles the remaining lines.
C4_UnavailableFallsBackToLocal ==
    [][ (pc = "await" /\ api'.cause \in Unavailable)
            => /\ pc' = "pause"
               /\ failure' = "none"
               /\ cefrLevel' = getBasicCEFRLevel(word)
               /\ cefrLevel' \in Levels ]_vars

\* The lookup of "xyzzyplugh" timed out, the item got the level of its length
\* band, and lines remain.
C4_Witness ==
    /\ pc = "pause"
    /\ api.cause = "timeout"
    /\ word = << "x", "y", "z", "z", "y", "p", "l", "u", "g", "h" >>
    /\ cefrLevel = B2
    /\ i + 1 < Len(lines)

\* C5: with the remote lookup enabled, every tag the annotator adds is one of
\* the six levels.
C5_RemoteTagIsALevel ==
    (script = "remote" /\ pc = "pause") => cefrLevel \in Levels

\* C6: a blank line, a comment line and a line of fewer than 12 fields come
\* out as they went in, with no classification, no remote request and no
\* failure; every other line with a text, the lines of exactly 12 fields
\* included, is classified.
C6_PassThroughLinesAreCopied ==
    /\ \A k \in 1..Len(processedLines) :
          isPassThrough(lines[k]) => (processedLines[k] = lines[k] /\ requests[k] = 0)
    /\ processedCount = Cardinality({ k \in 1..begun : isClassified(lines[k]) })
    /\ failure \in {"none", "read", "write"}
    /\ \A k \in 1..Len(processedLines) :
          (script = "offline" /\ isClassified(lines[k]) /\ fieldCount(lines[k]) = 12)
              => processedLines[k] # lines[k]

\* A file of a comment line of 12 fields and of a line of 11 fields was
\* handled whole, and nothing was classified.
C6_Witness ==
    /\ pc = "loop"
    /\ Len(processedLines) = 2
    /\ isComment(lines[1]) /\ fieldCount(lines[1]) = 12
    /\ ~ isComment(lines[2]) /\ fieldCount(lines[2]) = 11
    /\ processedLines = lines
    /\ processedCount = 0

\* C7: the offline annotator leaves a data line of at least 12 fields with
\* the same number of fields, and with every field but the one at index 11
\* as it was.
C7_OtherFieldsKept ==
    script = "offline" =>
        \A k \in 1..Len(processedLines) :
            (~ isBlank(lines[k]) /\ ~ isComment(lines[k]) /\ fieldCount(lines[k]) >= 12)
                => /\ fieldCount(processedLines[k]) = fieldCount(lines[k])
                   /\ \A j \in 1..fieldCount(lines[k]) :
                         j # 12 => fieldAt(processedLines[k], j) = fieldAt(lines[k], j)

\* The offline annotator added a level to a line of 13 fields.
C7_Witness ==
    /\ script = "offline"
    /\ Len(processedLines) >= 1
    /\ fieldCount(lines[1]) = 13
    /\ fieldAt(lines[1], 13) # <<>>
    /\ processedLines[1] # lines[1]

\* The designated field of a classified line before and after, and the level
\* computed for it: of every line the offline script has pushed, and of the
\* line the remote-enabled script has just classified.
levelUpdates ==
    IF script = "offline"
    THEN { << fieldAt(lines[k], 12), fieldAt(processedLines[k], 12),
              getCEFRLevelOffline(trim(fieldAt(lines[k], 4))) >> :
           k \in { n \in 1..Len(processedLines) : isClassified(lines[n]) } }
    ELSE IF pc = "pause"
    THEN { << fieldAt(lines[i + 1], 12), columns[12], cefrLevel >> }
    ELSE {}

\* C8 as stated: a non-empty designated field gets one space and the level
\* appended; an empty one becomes the level.
C8_NonEmptyFieldIsAppendedTo ==
    \A u \in levelUpdates :
        IF u[1] # <<>> THEN u[2] = u[1] \o << " " >> \o u[3] ELSE u[2] = u[3]

\* C8, amended: a designated field holding a character that is not white space
\* gets one space and the level appended to its contents, verbatim; an empty
\* or white-space-only one becomes the level alone.
C8_NonBlankFieldIsAppendedTo ==
    \A u \in levelUpdates :
        IF ~ isBlank(u[1]) THEN u[2] = u[1] \o << " " >> \o u[3] ELSE u[2] = u[3]

\* The offline annotator appended to the field "t u" of one line, and replaced
\* the field " " of another by the level.
C8_Witness ==
    /\ script = "offline"
    /\ \E u \in levelUpdates : u[1] = << "t", " ", "u" >> /\ u[2] = u[1] \o << " " >> \o B1
    /\ \E u \in levelUpdates : u[1] = << " " >> /\ u[2] = C2

\* The number of lines of a text: its pieces between line feeds.
lineCount(s) == Cardinality({ p \in 1..Len(s) : s[p] = "\n" }) + 1

\* The values the remote lookup hands to getCEFRLevel as a level.
RemoteValues == { onEnd(Pending, body).value : body \in Bodies } \ { <<>>, UNKNOWN }

\* The lines the remote-enabled script may push for a line of the input: the
\* line as it is when it has no text to classify, the line with a remote value
\* or its local level in its designated field otherwise.
remoteResults(line) ==
    IF ~ isClassified(line)
    THEN { line }
    ELSE { join(setLevelRemote(split(line, "\t"), l), "\t") :
             l \in RemoteValues \cup { getBasicCEFRLevel(fieldAt(line, 4)) } }

\* C9: one output line is pushed per input line, in the order of the input;
\* the written file has as many lines as the input file; the k-th output line
\* is a function of the k-th input line alone (offline), of it and of the
\* remote answer for it (remote-enabled); equal input lines of a file give
\* equal output lines offline.
C9_LineByLine ==
    /\ Len(processedLines) = i
    /\ i <= Len(lines)
    /\ pc = "done" => /\ Len(processedLines) = Len(lines)
                      /\ output.written
                      /\ lineCount(output.text) = lineCount(data)
    /\ script = "offline" =>
          /\ \A k \in 1..Len(processedLines) : processedLines[k] = processLineOffline(lines[k])
          /\ \A k, n \in 1..Len(processedLines) :
                lines[k] = lines[n] => processedLines[k] = processedLines[n]
    /\ script = "remote" =>
          \A k \in 1..Len(processedLines) : processedLines[k] \in remoteResults(lines[k])

\* A file of a blank line and of a classified line was written by the offline
\* script, in the order of the input.
C9_Witness ==
    /\ script = "offline"
    /\ pc = "done"
    /\ Len(lines) >= 2
    /\ isBlank(lines[1]) /\ processedLines[1] = lines[1]
    /\ isClassified(lines[2]) /\ processedLines[2] # lines[2]

\* C10: at most one remote request is issued for an item: one for each
\* classified line of the remote-enabled script whose iteration has begun,
\* none for any other line, whatever the outcome of the request.
C10_OneRequestPerItem ==
    pc # "read" =>
        /\ Len(requests) = Len(lines)
        /\ \A k \in 1..Len(lines) :
              requests[k] = IF script = "remote" /\ k <= begun /\ isClassified(lines[k])
                            THEN 1 ELSE 0

\* The one request for a phrase timed out, the phrase got the level of its
\* hardest token from the local path, and no second request was issued.
C10_Witness ==
    /\ pc = "pause"
    /\ includes(word, " ")
    /\ api.cause = "timeout"
    /\ cefrLevel = B1
    /\ requests[i + 1] = 1

----------------------------------------------------------------------------
(* Properties of the runs, continued.                                      *)

\* C11: under the fairness of the event loop, every issued remote request
\* ends (the await of getCEFRLevel returns, with a level for the item), and a
\* run that has read its input reaches the write of its output.
C11_RequestsEndAndRunReachesWrite ==
    /\ (pc = "await") ~> (pc = "pause" /\ cefrLevel # <<>>)
    /\ (pc = "loop") ~> (pc = "done" \/ failure = "write")

\* C12: the output file is complete or not produced: a file at the output
\* path holds the join of one processed line per input line; a failed read
\* leaves nothing written; a run that ends well has written its file; a run
\* ends failed exactly when a read or a write failed.
C12_OutputCompleteOrNotProduced ==
    /\ output.written => /\ Len(processedLines) = Len(lines)
                         /\ output.text = join(processedLines, "\n")
    /\ failure = "read" => ~ output.written
    /\ pc = "done" => (output.written /\ failure = "none")
    /\ (pc = "failed") <=> (failure \in {"read", "write"})

\* The line of the scenario: twelve fields, the first '#note', field[3] 'cat',
\* field[11] empty.
NoteLine ==
    join(fieldsOf(12, << "#", "n", "o", "t", "e" >>, << "c", "a", "t" >>, <<>>), "\t")

\* The same line with a first field that does not begin with the comment marker.
DataLine ==
    join(fieldsOf(12, << "d" >>, << "c", "a", "t" >>, <<>>), "\t")

\* The output line has 'A1' in field[11] and every other field of the input line.
annotatedWithA1(inLine, outLine) ==
    /\ fieldCount(outLine) = fieldCount(inLine)
    /\ fieldAt(outLine, levelColumn + 1) = A1
    /\ \A j \in 1..fieldCount(inLine) :
          j # levelColumn + 1 => fieldAt(outLine, j) = fieldAt(inLine, j)

\* C13 as stated: the line whose first field is '#note' comes out with 'A1' in
\* field[11] and its other fields unchanged.
C13_NoteLineGetsA1 ==
    \A k \in 1..Len(processedLines) :
        (script = "offline" /\ lines[k] = NoteLine)
            => annotatedWithA1(lines[k], processedLines[k])

\* C13, amended: the line whose first field is '#note' starts with the comment
\* marker and is output unchanged by both scripts, field[11] still empty; the
\* same line with a first field that does not begin with '#' comes out of the
\* offline script with 'A1' in field[11] and its other fields unchanged.
C13_NoteLineCopiedDataLineGetsA1 ==
    \A k \in 1..Len(processedLines) :
        /\ lines[k] = NoteLine =>
              /\ processedLines[k] = NoteLine
              /\ fieldAt(processedLines[k], levelColumn + 1) = <<>>
        /\ (script = "offline" /\ lines[k] = DataLine) =>
              annotatedWithA1(lines[k], processedLines[k])

\* The offline script has processed the '#note' line and then the data line.
C13_Witness ==
    /\ script = "offline"
    /\ Len(processedLines) = 2
    /\ lines[1] = NoteLine
    /\ lines[2] = DataLine
    /\ processedLines[2] # lines[2]

\* C14: the line terminator is stripped before a line is tested and split, so
\* no field gets a terminator character into its content: in a processed
\* line a carriage return or a line feed stands nowhere but at the very end.
C14_TerminatorNeverInsideALine ==
    \A k \in 1..Len(processedLines) :
        \A q \in 1..Len(processedLines[k]) :
            processedLines[k][q] \in { "\r", "\n" } => q = Len(processedLines[k])

\* The file the first run of a row of runs read, and the number of the run
\* that is being made.
originalData == IF history = <<>> THEN data ELSE history[1]

runNumber == Len(history) + 1

\* n tags `level`, with one space between two of them.
RECURSIVE tags(_, _)
tags(level, n) == IF n <= 1 THEN level ELSE tags(level, n - 1) \o << " " >> \o level

\* C16: when the offline annotator is run on its own output, a line with a
\* text and an empty designated field holds 'L' in that field after one run
\* and 'L L' after two (one more ' L' per run), L being the level of the
\* line's text each time; a line that is passed through is the same after
\* every run.
C16_EachRunAppendsTheSameTag ==
    script = "offline" =>
        \A k \in 1..Len(processedLines) :
            LET original == split(originalData, "\n")[k]
            IN  /\ (isClassified(original) /\ fieldAt(original, levelColumn + 1) = <<>>)
                      => /\ fieldAt(processedLines[k], levelColumn + 1)
                              = tags(getCEFRLevelOffline(fieldAt(original, wordColumn + 1)),
                                     runNumber)
                         /\ getCEFRLevelOffline(fieldAt(original, wordColumn + 1)) \in Levels
                /\ isPassThrough(original) => processedLines[k] = original

\* The second run is over: a line that had an empty designated field holds
\* 'A1 A1', and a passed-through line came before it.
C16_Witness ==
    /\ script = "offline"
    /\ runNumber = 2
    /\ pc = "done"
    /\ Len(lines) = 2
    /\ isPassThrough(split(originalData, "\n")[1])
    /\ split(originalData, "\n")[2] = DataLine
    /\ fieldAt(processedLines[2], levelColumn + 1) = A1 \o << " " >> \o A1
    /\ output.text = join(processedLines, "\n")

\* C19: in the remote-enabled script a request is pending only while the
\* loop waits for it, for the line at hand and for no other; and a request is
\* issued only when no request is pending, every earlier line has been
\* pushed, and every earlier classified line carries its result in its
\* designated field.
C19_OneRequestOutstanding ==
    /\ [](script = "remote" =>
            /\ api.state = "pending" => pc = "await"
            /\ \A k \in 1..Len(requests) :
                  (requests[k] > 0 /\ k > Len(processedLines)) => (k = i + 1 /\ pc # "loop"))
    /\ [][(script = "remote" /\ pc = "loop" /\ requests' # requests) =>
            /\ api.state # "pending"
            /\ pc' = "await"
            /\ api'.state = "pending"
            /\ Len(processedLines) = i
            /\ \A k \in 1..i :
                  isClassified(lines[k]) =>
                     /\ processedLines[k] \in remoteResults(lines[k])
                     /\ processedLines[k] # lines[k] ]_vars

\* The request of the second line is pending, and the first line was
\* classified by a remote answer and pushed.
C19_Witness ==
    /\ script = "remote"
    /\ pc = "await"
    /\ api.state = "pending"
    /\ i = 1
    /\ requests = << 1, 1 >>
    /\ isClassified(lines[1])
    /\ processedLines[1] # lines[1]

\* C20: a queryAPI promise settles once: from pending it goes to resolved or
\* rejected, and from then on, whatever event of the request comes (response
\* end, request error, timeout), its state, value and cause stay, as do the
\* level chosen for the item and the columns it was stored in; only the next
\* request makes a new promise.
C20_SettlesOnce ==
    /\ [](/\ api.state = "resolved" => (api.cause \in {"level", "noLevel"} /\ api.value # <<>>)
          /\ api.state = "rejected" =>
                api.cause \in {"unparsable", "typeError", "error", "timeout"}
          /\ api.state \in {"idle", "pending"} => api.cause = "none"
          /\ pc = "pause" => /\ api.state \in {"resolved", "rejected"}
                             /\ cefrLevel = getCEFRLevel(word, api))
    /\ [][(api.state \in {"resolved", "rejected"} /\ api'.state # "pending")
             => /\ api'.state = api.state
                /\ api'.value = api.value
                /\ api'.cause = api.cause
                /\ cefrLevel' = cefrLevel
                /\ columns' = columns ]_vars

\* The timeout came first and the item got its local level; the error of the
\* destroyed request and a response end came after it, and the level stayed.
C20_Witness ==
    /\ pc = "pause"
    /\ api.cause = "timeout"
    /\ api.destroyed
    /\ api.errorEmitted
    /\ api.ended
    /\ word = << "c", "a", "t" >>
    /\ cefrLevel = A1

----------------------------------------------------------------------------
(* Properties of the classifier functions, continued.                      *)

\* White space of any kind between two characters of the trimmed input.
hasInnerWhiteSpace(s) == \E q \in 1..Len(trim(s)) : trim(s)[q] \in WhiteSpaceChars

\* C15: an input with white space of any kind inside it (after trimming) is
\* classified by the phrase path: it gets the highest level of its tokens,
\* never the level the single-word path gives the whole string.
C15_InnerWhiteSpaceSelectsPhrasePath ==
    /\ (fn = "getCEFRLevelOffline" /\ hasInnerWhiteSpace(input) /\ tokensOf(input) # {})
          => result = highestLevel({ lookupOffline(t) : t \in tokensOf(input) })
    /\ (fn = "getBasicCEFRLevel" /\ hasInnerWhiteSpace(input) /\ tokensOf(input) # {})
          => result = highestLevel({ lookupBasic(t) : t \in tokensOf(input) })

\* The lines pushed so far are those processTSVFileOffline pushes for the
\* same input.
agreesWithOffline ==
    \A k \in 1..Len(processedLines) : processedLines[k] = processLineOffline(lines[k])

\* The text processTSVFileOffline writes for the input that was read.
offlineText == join([k \in 1..Len(lines) |-> processLineOffline(lines[k])], "\n")

\* C17: getBasicCEFRLevel and getCEFRLevelOffline return the same level for
\* every input, as do the two analyzePhrase; in the remote-enabled script a
\* line whose lookup ended unavailable is rebuilt as the offline script
\* builds it, a line is pushed as rebuilt, a line without a lookup is pushed
\* as the offline script pushes it, and a run whose lines were all pushed so
\* writes the text the offline script writes for the same input.
C17_LocalClassifiersAgree ==
    /\ [](/\ fn = "getBasicCEFRLevel" => result = getCEFRLevelOffline(input)
          /\ fn = "getCEFRLevelOffline" => result = getBasicCEFRLevel(input)
          /\ fn = "analyzePhraseBasic" => result = analyzePhrase(input)
          /\ fn = "analyzePhrase" => result = analyzePhraseBasic(input)
          /\ (script = "remote" /\ pc = "pause" /\ api.cause \in Unavailable)
                => join(columns, "\t") = processLineOffline(lines[i + 1])
          /\ (script = "remote" /\ pc = "done" /\ agreesWithOffline)
                => output.text = offlineText)
    /\ [][(script = "remote" /\ processedLines' # processedLines)
              => processedLines' = Append(processedLines,
                                          IF pc = "pause"
                                          THEN join(columns, "\t")
                                          ELSE processLineOffline(lines[i + 1]))]_vars

\* A remote-enabled run of two classified lines whose lookups ended
\* unavailable has written the output of the offline script.
C17_Witness ==
    /\ script = "remote"
    /\ pc = "done"
    /\ processedCount = 2
    /\ api.cause = "timeout"
    /\ agreesWithOffline
    /\ processedLines[1] # lines[1]
    /\ output.text = offlineText

\* The words analyzePhrase passes to the classifier, one call each.
phraseWords(phrase) ==
    SelectSeq(splitWhiteSpace(removePunctuation(toLowerCase(phrase))),
              LAMBDA w : Len(w) > 0)

\* The depth of the calls of getCEFRLevelOffline(text0), itself included: 1
\* when it takes the single-word path, 2 for it and analyzePhrase, more for
\* the calls analyzePhrase makes; followed `fuel` phrase calls deep.
RECURSIVE callDepth(_, _)
callDepth(text0, fuel) ==
    LET text == trim(toLowerCase(text0))
    IN  IF fuel = 0 \/ ~ includes(text, " ")
        THEN 1
        ELSE 2 + SetMax({0} \cup { callDepth(phraseWords(text)[q], fuel - 1) :
                                     q \in 1..Len(phraseWords(text)) })

\* C18: a call of the local classifier ends with a level; the words
\* analyzePhrase passes back have no space in them (no white space at all,
\* and they are trimmed and in lower case already), so each of them takes the
\* single-word path: analyzePhrase is entered at most once, and the calls
\* are at most three deep, the classifier, analyzePhrase and one single-word
\* call per word.
C18_PhraseRecursionStops ==
    fn \in {"getCEFRLevelOffline", "getBasicCEFRLevel", "analyzePhrase", "analyzePhraseBasic"}
        => /\ result \in Levels
           /\ \A q \in 1..Len(phraseWords(input)) :
                 LET w == phraseWords(input)[q]
                 IN  /\ ~ includes(w, " ")
                     /\ \A p \in 1..Len(w) : w[p] \notin WhiteSpaceChars
                     /\ trim(toLowerCase(w)) = w
                     /\ callDepth(w, MaxNesting) = 1
           /\ callDepth(input, MaxNesting) <= 3

\* A phrase of three words was classified through analyzePhrase.
C18_Witness ==
    /\ fn = "getCEFRLevelOffline"
    /\ includes(trim(input), " ")
    /\ Len(phraseWords(input)) = 3
    /\ callDepth(input, MaxNesting) = 3
    /\ result = C2

====
